---- MODULE Spec2Model ----
(***************************************************************************)
(* A model of the investigation pipeline of Narka-AI.                      *)
(*                                                                         *)
(*   Spec        one run of InvestigationService.investigate               *)
(*               (src/src/core/services/investigation_service.py), with    *)
(*               program locations named after the source lines.           *)
(*   SpecEntity  arbitrary calls of the public methods of the              *)
(*               Investigation entity                                      *)
(*               (src/src/core/entities/investigation.py).                 *)
(*   SpecManager one SearchEngineManager.search call, its pool workers     *)
(*               interleaved (src/src/adapters/search_engines/manager.py). *)
(*   SpecRetry   one BaseSearchEngine.search call with the retry loop of   *)
(*               _make_request (src/src/adapters/search_engines/base.py).  *)
(*   SpecHealth  the health record of a SearchEngineProvider under any     *)
(*               sequence of search and check_health calls                 *)
(*               (src/src/core/interfaces/search_engine.py).               *)
(*   SpecExecutor  the thread pool of _search_all_engines.                 *)
(*   SpecTruncate  scrape_single and ScrapedContent.truncate on texts of   *)
(*               a few characters.                                         *)
(*   SpecThreat  add_ioc and calculate_threat_score on one                 *)
(*               ThreatIntelligence (src/src/core/entities/threat_intel.py)*)
(*   SpecAnalyzer  one ThreatAnalyzer._generate_iocs call                  *)
(*               (src/src/core/services/threat_analyzer.py).               *)
(*   SpecExtractor  EntityExtractor.extract on texts of hexadecimal words  *)
(*               and the hash-type detection of the STIX exporter.         *)
(*   SpecCache   a MemoryCache or a SQLiteCache under any calls and the    *)
(*               passage of time (src/src/infrastructure/cache).           *)
(*   SpecEviction  a MemoryCache called with more keys than max_size.      *)
(*   SpecCreate  the construction of an Investigation and its tag methods.  *)
(*   SpecLimiter  RateLimitMiddleware.dispatch under any requests.          *)
(*   SpecFilter  the filter and scrape stages with a small max_results.     *)
(*   SpecConcurrent  two extract calls at once on one EntityExtractor.      *)
(*   SpecAnalysis  one ThreatAnalyzer.analyze call up to the threat score.  *)
(*   SpecCounts  one EntityExtractor.extract_from_multiple call.            *)
(***************************************************************************)
EXTENDS Integers, Sequences, FiniteSets, TLC

(***************************************************************************)
(* Bounds and input sets                                                   *)
(***************************************************************************)

\* Number of search engines that can be handed to the service.
NumEngines == 2

\* Number of public entity calls explored by SpecEntity.
MaxCalls == 4

\* Length of the list of numbers found in one LLM filter answer.
MaxNumbers == 2

\* Optional[T]: None, or Some(x) for a value x.
None == <<>>
Some(x) == << x >>

\* No exception was raised yet (the value of raised_at).
NULL == "None"

\* The result dicts {"link": .., "title": ..} providers are drawn from; ""
\* is the empty string.
Results ==
    { [link |-> "x.onion/a", title |-> "t1"],
      [link |-> "x.onion/a", title |-> "t2"],
      [link |-> "x.onion/b", title |-> "t1"],
      [link |-> "x.onion/b", title |-> ""],
      [link |-> "", title |-> "t2"] }

\* What one engine.search call can give: an exception, a SearchEngineResult
\* with is_success False, or one with is_success True and a result list.
Responses ==
    { [kind |-> "raise", results |-> <<>>],
      [kind |-> "fail", results |-> <<>>],
      [kind |-> "ok", results |-> <<>>] }
    \cup { [kind |-> "ok", results |-> <<r>>] : r \in Results }
    \cup { [kind |-> "ok",
            results |-> << [link |-> "x.onion/a", title |-> "t1"],
                           [link |-> "x.onion/b", title |-> "t2"] >>] }

\* Page texts (soup.get_text) of a fetched page.
Texts == {"", "body"}

(***************************************************************************)
(* InvestigationStatus                                                     *)
(***************************************************************************)
PENDING == "pending"
REFINING_QUERY == "refining_query"
SEARCHING == "searching"
FILTERING == "filtering"
SCRAPING == "scraping"
EXTRACTING == "extracting"
ANALYZING == "analyzing"
COMPLETED == "completed"
FAILED == "failed"
CANCELLED == "cancelled"

InvestigationStatus ==
    { PENDING, REFINING_QUERY, SEARCHING, FILTERING, SCRAPING, EXTRACTING,
      ANALYZING, COMPLETED, FAILED, CANCELLED }

\* Position of a status in the declaration order of the enum.
StatusOrder(s) ==
    CASE s = PENDING -> 0
      [] s = REFINING_QUERY -> 1
      [] s = SEARCHING -> 2
      [] s = FILTERING -> 3
      [] s = SCRAPING -> 4
      [] s = EXTRACTING -> 5
      [] s = ANALYZING -> 6
      [] s = COMPLETED -> 7
      [] s = FAILED -> 8
      [] s = CANCELLED -> 9

(***************************************************************************)
(* State                                                                   *)
(***************************************************************************)
VARIABLES
    \* the service's construction arguments and the caller's arguments
    config,
    \* the Investigation object
    status, updated_at, completed_at, errors, refined_query,
    search_results_count, filtered_results_count, scraped_count,
    entities_extracted, threat_score, summary,
    \* the program location of investigate and its locals
    pc, search_results, filtered_results, scraped_content,
    \* locals of _search_all_engines / _scrape_content while they run
    futures, response, all_results, unique_results, fetch, scraped,
    \* the clock read by datetime.utcnow()
    now,
    \* observation: statuses entered, progress reported, saves made, and the
    \* status the investigation had when an exception was raised
    status_log, progress_log, saved, raised_at,
    \* observation: the LLM calls that raised, and the number of provider
    \* and fetch tasks that failed
    llm_failures, partial_failures,
    \* number of entity calls made (SpecEntity)
    calls,
    \* BaseSearchEngine._make_request and search (SpecRetry)
    session, max_retries, attempt, attempt_log, request_pc, search_value,
    \* SearchEngineProvider.health and the calls made on it (SpecHealth)
    health, health_calls,
    \* SearchEngineManager.search (SpecManager)
    mgr_config, target_engines, engine_stats, worker, mgr_pc, mgr_futures,
    mgr_all_results, seen_urls,
    \* the thread pool of _search_all_engines (SpecExecutor)
    executor,
    \* scrape_single and ScrapedContent.truncate on texts (SpecTruncate)
    page, content_out,
    \* a ThreatIntelligence object, whether calculate_threat_score ran since
    \* its IOC list last changed, and the value it returned (SpecThreat)
    threat_intel, threat_pc, score_returned,
    \* one ThreatAnalyzer._generate_iocs call (SpecAnalyzer)
    analyzer,
    \* an EntityExtractor and the STIX exporter's hash-type answer
    \* (SpecExtractor)
    extractor, stix_hash,
    \* a MemoryCache, a SQLiteCache, the clock read by time.time(), the
    \* last call made and, as observation, what was written and read
    \* (SpecCache)
    memory_cache, sqlite_cache, cache_time, cache_call, cache_written,
    cache_used,
    \* the keys, values and ttl arguments the caches are called with
    cache_args,
    \* an Investigation as its constructor leaves it, and the clock read by
    \* datetime.utcnow() (SpecCreate)
    new_investigation, create_clock,
    \* a RateLimitMiddleware, the clock read by time.time() and, as
    \* observation, the requests dispatched so far (SpecLimiter)
    limiter, limiter_time, limiter_log,
    \* stages 3 and 4 of investigate with a ResultFilter of a small
    \* max_results (SpecFilter)
    filter_run,
    \* the _seen_values of an EntityExtractor shared by two running
    \* extract calls, and the two calls (SpecConcurrent)
    shared_seen, extract_calls,
    \* one ThreatAnalyzer.analyze call (SpecAnalysis)
    analysis,
    \* one EntityExtractor.extract_from_multiple call (SpecCounts)
    extraction

statusVars == << status, updated_at, completed_at, status_log >>

countVars ==
    << search_results_count, filtered_results_count, scraped_count >>

outVars == << refined_query, entities_extracted, threat_score, summary >>

stageVars == << search_results, filtered_results, scraped_content >>

auxVars == << llm_failures, partial_failures, calls >>

poolVars == << futures, response, all_results, unique_results, fetch, scraped >>

retryVars ==
    << session, max_retries, attempt, attempt_log, request_pc, search_value >>

healthVars == << health, health_calls >>

managerVars ==
    << mgr_config, target_engines, engine_stats, worker, mgr_pc, mgr_futures,
       mgr_all_results, seen_urls >>

truncateVars == << page, content_out >>

threatVars == << threat_intel, threat_pc, score_returned >>

extractVars == << extractor, stix_hash >>

\* The analysis components: scoring, IOC generation, extraction.
analysisVars == << threatVars, analyzer, extractVars >>

cacheVars ==
    << memory_cache, sqlite_cache, cache_time, cache_call, cache_written,
       cache_used, cache_args >>

\* The search-side components: retry, health, manager, pool, truncation.
adapterVars ==
    << retryVars, healthVars, managerVars, executor, truncateVars >>

createVars == << new_investigation, create_clock >>

limiterVars == << limiter, limiter_time, limiter_log >>

filterVars == << filter_run >>

concurrentVars == << shared_seen, extract_calls >>

levelVars == << analysis >>

countingVars == << extraction >>

\* The components of the service, API and entity layers modelled last.
moreVars ==
    << createVars, limiterVars, filterVars, concurrentVars, levelVars,
       countingVars >>

\* The state of the components that investigate does not touch.
compVars == << adapterVars, analysisVars, cacheVars, moreVars >>

\* The state of one run of investigate.
coreVars ==
    << config, statusVars, errors, countVars, outVars, pc, stageVars,
       poolVars, now, progress_log, saved, raised_at, auxVars >>

vars == << coreVars, compVars >>

(***************************************************************************)
(* Investigation (entity)                                                  *)
(***************************************************************************)

\* Investigation.update_status: status and updated_at always, completed_at
\* only for COMPLETED and FAILED.
UpdateStatus(new_status) ==
    /\ status' = new_status
    /\ updated_at' = now
    /\ completed_at' = IF new_status \in {COMPLETED, FAILED}
                       THEN Some(now) ELSE completed_at
    /\ now' = now + 1
    /\ status_log' = Append(status_log, new_status)

\* Investigation.add_error: append {stage, error, details, timestamp}.
AddError(stage, error) ==
    /\ errors' = Append(errors, [stage |-> stage, error |-> error,
                                 timestamp |-> now])
    /\ now' = now + 1

\* Investigation.is_active
IsActive == status \notin {COMPLETED, FAILED, CANCELLED}

\* The fields of a fresh Investigation(original_query=..., model=...).
InitInvestigation ==
    /\ status = PENDING
    /\ updated_at = 0
    /\ completed_at = None
    /\ errors = <<>>
    /\ refined_query = None
    /\ search_results_count = 0
    /\ filtered_results_count = 0
    /\ scraped_count = 0
    /\ entities_extracted = None
    /\ threat_score = None
    /\ summary = None

InitLocals ==
    /\ pc = "l113"
    /\ search_results = <<>>
    /\ filtered_results = <<>>
    /\ scraped_content = <<>>
    /\ futures = {}
    /\ response = <<>>
    /\ all_results = <<>>
    /\ unique_results = <<>>
    /\ fetch = <<>>
    /\ scraped = <<>>

InitObs ==
    /\ status_log = << PENDING >>
    /\ progress_log = <<>>
    /\ saved = 0
    /\ raised_at = NULL
    /\ llm_failures = {}
    /\ partial_failures = 0

(***************************************************************************)
(* The other components, as constructed and before any call                *)
(***************************************************************************)

\* SearchEngineStatus (core/interfaces/search_engine.py)
ONLINE == "online"
OFFLINE == "offline"
DEGRADED == "degraded"
UNKNOWN == "unknown"

\* BaseSearchEngine.__init__: max_retries: int = 3
DefaultMaxRetries == 3

\* A BaseSearchEngine on which no request was made.
RetryAtRest ==
    /\ session = FALSE
    /\ max_retries = DefaultMaxRetries
    /\ attempt = 0
    /\ attempt_log = <<>>
    /\ request_pc = "rest"
    /\ search_value = None

\* SearchEngineHealth(): the defaults of the dataclass.
InitHealth ==
    /\ health = [ status |-> UNKNOWN,
                  response_time_ms |-> None,
                  error_message |-> None,
                  consecutive_failures |-> 0 ]
    /\ health_calls = 0

\* A SearchEngineManager on which search is not running.
ManagerAtRest ==
    /\ mgr_config = [ enable_deduplication |-> TRUE ]
    /\ target_engines = <<>>
    /\ engine_stats = <<>>
    /\ worker = <<>>
    /\ mgr_pc = "rest"
    /\ mgr_futures = {}
    /\ mgr_all_results = <<>>
    /\ seen_urls = {}

\* No thread pool exists.
ExecutorAtRest ==
    executor = [ providers |-> 0, max_workers |-> 0, task |-> <<>>,
                 pc |-> "rest" ]

\* No text is being cut.
TruncateAtRest ==
    /\ page = [ title |-> <<>>, text |-> <<>>, outcome |-> "ok",
                max_content_chars |-> 0 ]
    /\ content_out = None

\* class ThreatLevel(Enum)
ThreatLevel ==
    [ UNKNOWN |-> "unknown", LOW |-> "low", MEDIUM |-> "medium",
      HIGH |-> "high", CRITICAL |-> "critical" ]

\* ThreatIntelligence(investigation_id): the defaults of the dataclass; the
\* score is kept in hundredths.
ThreatAtRest ==
    /\ threat_intel = [ iocs |-> <<>>, threat_score |-> 0,
                        overall_threat_level |-> ThreatLevel.UNKNOWN ]
    /\ threat_pc = "constructed"
    /\ score_returned = None

\* No _generate_iocs call is running.
AnalyzerAtRest ==
    analyzer = [ min_confidence |-> 50, entities |-> <<>>, iocs |-> <<>>,
                 pc |-> 0, done |-> FALSE ]

\* EntityExtractor(): nothing seen, extract not called.
ExtractorAtRest ==
    /\ extractor = [ _seen_values |-> {}, text |-> <<>>, entities |-> <<>>,
                     calls |-> 0 ]
    /\ stix_hash = None

\* No cache object was constructed.
CacheAtRest ==
    /\ memory_cache = None
    /\ sqlite_cache = None
    /\ cache_time = 0
    /\ cache_call = None
    /\ cache_written = {}
    /\ cache_used = <<>>
    /\ cache_args = [ keys |-> {}, values |-> {}, ttls |-> {} ]

\* No Investigation was constructed.
CreateAtRest ==
    /\ new_investigation = None
    /\ create_clock = 0

\* No RateLimitMiddleware was constructed.
LimiterAtRest ==
    /\ limiter = None
    /\ limiter_time = 0
    /\ limiter_log = <<>>

\* No filter run was started.
FilterAtRest ==
    /\ filter_run = None

\* No extract call is running on the shared EntityExtractor.
ConcurrentAtRest ==
    /\ shared_seen = {}
    /\ extract_calls = <<>>

\* No ThreatAnalyzer.analyze call was made.
AnalysisAtRest ==
    /\ analysis = None

\* No extract_from_multiple call was made.
CountsAtRest ==
    /\ extraction = None

\* The components modelled last are untouched.
MoreAtRest ==
    /\ CountsAtRest
    /\ AnalysisAtRest
    /\ ConcurrentAtRest
    /\ FilterAtRest
    /\ LimiterAtRest
    /\ CreateAtRest

\* Every component added after the search side is untouched.
LaterAtRest ==
    /\ ThreatAtRest
    /\ AnalyzerAtRest
    /\ ExtractorAtRest
    /\ CacheAtRest
    /\ MoreAtRest

\* InvestigationService.__init__ and the arguments of investigate.
Configs ==
    [ enable_entity_extraction : BOOLEAN,
      enable_threat_analysis : BOOLEAN,
      storage : BOOLEAN,
      progress_callback : BOOLEAN,
      search_engines : 0..NumEngines ]

Init ==
    /\ config \in Configs
    /\ InitInvestigation
    /\ InitLocals
    /\ InitObs
    /\ now = 1
    /\ calls = 0
    /\ RetryAtRest
    /\ InitHealth
    /\ ManagerAtRest
    /\ ExecutorAtRest
    /\ TruncateAtRest
    /\ LaterAtRest

(***************************************************************************)
(* InvestigationService.investigate: progress and status lines             *)
(***************************************************************************)

\* An exception leaves the try block: control moves to the except clause.
Raise ==
    /\ pc' = "l173"
    /\ raised_at' = status

\* The progress checkpoints of investigate.
ProgressLines == {"l113", "l118", "l124", "l133", "l140", "l147", "l157", "l166"}

ProgressStage(l) ==
    CASE l = "l113" -> "Refining query"
      [] l = "l118" -> "Searching dark web"
      [] l = "l124" -> "Filtering results"
      [] l = "l133" -> "Scraping content"
      [] l = "l140" -> "Extracting entities"
      [] l = "l147" -> "Analyzing threats"
      [] l = "l157" -> "Generating summary"
      [] l = "l166" -> "Complete"

ProgressNext(l) ==
    CASE l = "l113" -> "l114"
      [] l = "l118" -> "l119"
      [] l = "l124" -> "l125"
      [] l = "l133" -> "l134"
      [] l = "l140" -> "l141"
      [] l = "l147" -> "l148"
      [] l = "l157" -> "l158"
      [] l = "l166" -> "l169"

\* _update_progress returns: the callback, if any, was called and returned.
ProgressReturns ==
    /\ pc \in ProgressLines
    /\ pc' = ProgressNext(pc)
    /\ progress_log' = IF config.progress_callback
                       THEN Append(progress_log, ProgressStage(pc))
                       ELSE progress_log
    /\ UNCHANGED << compVars, config, statusVars, errors, countVars, outVars,
                    stageVars, poolVars, now, saved, raised_at, auxVars >>

\* _update_progress: the callback is called and raises.
ProgressRaises ==
    /\ pc \in ProgressLines
    /\ config.progress_callback
    /\ Raise
    /\ progress_log' = Append(progress_log, ProgressStage(pc))
    /\ UNCHANGED << compVars, config, statusVars, errors, countVars, outVars,
                    stageVars, poolVars, now, saved, auxVars >>

\* The update_status calls of the try block.
StatusLines == {"l114", "l119", "l125", "l134", "l141", "l148", "l165"}

\* A slip in the status lines: the filtering stage re-enters SEARCHING.
StatusAt_Repeats(l) ==
    CASE l = "l114" -> REFINING_QUERY
      [] l = "l119" -> SEARCHING
      [] l = "l125" -> SEARCHING
      [] l = "l134" -> SCRAPING
      [] l = "l141" -> EXTRACTING
      [] l = "l148" -> ANALYZING
      [] l = "l165" -> COMPLETED

StatusAt(l) ==
    CASE l = "l114" -> REFINING_QUERY
      [] l = "l119" -> SEARCHING
      [] l = "l125" -> FILTERING
      [] l = "l134" -> SCRAPING
      [] l = "l141" -> EXTRACTING
      [] l = "l148" -> ANALYZING
      [] l = "l165" -> COMPLETED

StatusNext(l) ==
    CASE l = "l114" -> "l115"
      [] l = "l119" -> "l120"
      [] l = "l125" -> "l126"
      [] l = "l134" -> "l135"
      [] l = "l141" -> "l142"
      [] l = "l148" -> "l149"
      [] l = "l165" -> "l166"

StageStatus ==
    /\ pc \in StatusLines
    /\ UpdateStatus(StatusAt(pc))
    /\ pc' = StatusNext(pc)
    /\ UNCHANGED << compVars,
                    config, errors, countVars, outVars, stageVars, poolVars,
                    progress_log, saved, raised_at, auxVars >>

(***************************************************************************)
(* Stage 1: query refinement                                               *)
(***************************************************************************)

\* What QueryRefiner.refine returns (one LLM call, post-processed).
RefinedQueries == {"refined"}

\* Line 115, the LLM call returns.
RefineReturns ==
    /\ pc = "l115"
    /\ \E q \in RefinedQueries : refined_query' = Some(q)
    /\ pc' = "l118"
    /\ UNCHANGED << compVars,
                    config, statusVars, errors, countVars, entities_extracted,
                    threat_score, summary, stageVars, poolVars, now,
                    progress_log, saved, raised_at, auxVars >>

\* Line 115, the LLM call raises: QueryRefiner.refine catches nothing.
RefineRaises ==
    /\ pc = "l115"
    /\ Raise
    /\ UNCHANGED << compVars, config, statusVars, errors, countVars, outVars,
                    stageVars, poolVars, now, progress_log, saved, calls,
                    partial_failures >>
    /\ llm_failures' = llm_failures \cup {"refine"}

(***************************************************************************)
(* Stage 2: _search_all_engines                                            *)
(***************************************************************************)

Engines == 1..config.search_engines

\* Lines 212-221: deduplicate by link, dropping results with an empty link.
RECURSIVE DedupFrom(_, _, _)
DedupFrom(rs, seen, acc) ==
    IF rs = <<>> THEN acc
    ELSE LET res == Head(rs)
             link == res.link
         IN IF link # "" /\ link \notin seen
            THEN DedupFrom(Tail(rs), seen \cup {link}, Append(acc, res))
            ELSE DedupFrom(Tail(rs), seen, acc)

DedupByLink(rs) == DedupFrom(rs, {}, <<>>)

\* Lines 205-210: what the as_completed loop does with one finished future.
CollectResult(acc, resp) ==
    IF resp.kind = "ok" THEN acc \o resp.results ELSE acc

\* Line 198 with no engine: ThreadPoolExecutor(max_workers=0) raises
\* ValueError, which leaves _search_all_engines and the try block.
SearchNoEngines ==
    /\ pc = "l120"
    /\ config.search_engines = 0
    /\ Raise
    /\ UNCHANGED << compVars, config, statusVars, errors, countVars, outVars,
                    stageVars, poolVars, now, progress_log, saved, auxVars >>

\* Lines 198-202: one engine.search task per engine is submitted. What each
\* task will give is fixed here; the order of completion is not.
SearchSubmit ==
    /\ pc = "l120"
    /\ config.search_engines > 0
    /\ futures' = Engines
    /\ response' \in [Engines -> Responses]
    /\ all_results' = <<>>
    /\ pc' = "l204"
    /\ UNCHANGED << compVars, config, statusVars, errors, countVars, outVars,
                    stageVars, unique_results, fetch, scraped, now,
                    progress_log, saved, raised_at, auxVars >>

\* Lines 204-210: as_completed yields the future of engine e.
SearchComplete(e) ==
    /\ pc = "l204"
    /\ e \in futures
    /\ futures' = futures \ {e}
    /\ all_results' = CollectResult(all_results, response[e])
    /\ UNCHANGED << compVars,
                    config, statusVars, errors, countVars, outVars, pc,
                    stageVars, response, unique_results, fetch, scraped, now,
                    progress_log, saved, raised_at, calls,
                    llm_failures >>
    /\ partial_failures' = IF response[e].kind = "ok"
                         THEN partial_failures ELSE partial_failures + 1

\* As SearchDedup, but the with block is left while futures are pending.
SearchDedup_Early ==
    /\ pc = "l204"
    /\ unique_results' = DedupByLink(all_results)
    /\ pc' = "l221"
    /\ UNCHANGED << compVars, config, statusVars, errors, countVars, outVars,
                    stageVars, futures, response, all_results, fetch,
                    scraped, now, progress_log, saved, raised_at, auxVars >>

\* Lines 212-219: every future was yielded; deduplicate.
SearchDedup ==
    /\ pc = "l204"
    /\ futures = {}
    /\ unique_results' = DedupByLink(all_results)
    /\ pc' = "l221"
    /\ UNCHANGED << compVars, config, statusVars, errors, countVars, outVars,
                    stageVars, futures, response, all_results, fetch,
                    scraped, now, progress_log, saved, raised_at, auxVars >>

\* Lines 221 and 120-121: return; the locals of _search_all_engines end.
SearchReturn ==
    /\ pc = "l221"
    /\ search_results' = unique_results
    /\ search_results_count' = Len(unique_results)
    /\ response' = <<>>
    /\ all_results' = <<>>
    /\ unique_results' = <<>>
    /\ pc' = "l124"
    /\ UNCHANGED << compVars,
                    config, statusVars, errors, filtered_results_count,
                    scraped_count, outVars, filtered_results,
                    scraped_content, futures, fetch, scraped, now,
                    progress_log, saved, raised_at, auxVars >>

(***************************************************************************)
(* Stage 3: ResultFilter.filter                                            *)
(***************************************************************************)

\* FilterConfig.max_results; InvestigationService builds ResultFilter with
\* the default configuration.
FilterMaxResults == 20

Min(a, b) == IF a <= b THEN a ELSE b

Elements(seq) == { seq[i] : i \in DOMAIN seq }

\* The numbers re.findall(r'\d+') finds in an LLM answer about n results.
LLMNumbers(n) == UNION { [1..k -> 0..(n + 1)] : k \in 0..MaxNumbers }

\* ResultFilter._parse_indices
RECURSIVE ParseFrom(_, _, _)
ParseFrom(numbers, max_index, indices) ==
    IF numbers = <<>> THEN indices
    ELSE LET num == Head(numbers)
         IN IF 1 <= num /\ num <= max_index /\ num \notin Elements(indices)
            THEN LET added == Append(indices, num)
                 IN IF Len(added) >= FilterMaxResults
                    THEN added
                    ELSE ParseFrom(Tail(numbers), max_index, added)
            ELSE ParseFrom(Tail(numbers), max_index, indices)

ParseIndices(numbers, max_index) == ParseFrom(numbers, max_index, <<>>)

\* Line 93: [results[i - 1] for i in indices if 0 < i <= len(results)]
SelectResults(results, indices) ==
    LET kept == SelectSeq(indices, LAMBDA i : 0 < i /\ i <= Len(results))
    IN [k \in 1..Len(kept) |-> results[kept[k]]]

\* Lines 95-97: on error, return truncated results.
FilterFallback(results) ==
    SubSeq(results, 1, Min(FilterMaxResults, Len(results)))

\* Lines 126-130 with no search result: filter returns [] without the LLM.
FilterEmpty ==
    /\ pc = "l126"
    /\ search_results = <<>>
    /\ filtered_results' = <<>>
    /\ filtered_results_count' = 0
    /\ pc' = "l133"
    /\ UNCHANGED << compVars, config, statusVars, errors, search_results_count,
                    scraped_count, outVars, search_results, scraped_content,
                    poolVars, now, progress_log, saved, raised_at, auxVars >>

\* Lines 126-130, the LLM answers.
FilterReturns ==
    /\ pc = "l126"
    /\ search_results # <<>>
    /\ \E numbers \in LLMNumbers(Len(search_results)) :
          LET indices == ParseIndices(numbers, Len(search_results))
              kept == SelectResults(search_results, indices)
          IN /\ filtered_results' = kept
             /\ filtered_results_count' = Len(kept)
    /\ pc' = "l133"
    /\ UNCHANGED << compVars, config, statusVars, errors, search_results_count,
                    scraped_count, outVars, search_results, scraped_content,
                    poolVars, now, progress_log, saved, raised_at, auxVars >>

\* The filter without its try/except: the LLM's exception leaves filter
\* and the try block of investigate.
FilterLLMRaises_Fatal ==
    /\ pc = "l126"
    /\ search_results # <<>>
    /\ Raise
    /\ llm_failures' = llm_failures \cup {"filter"}
    /\ UNCHANGED << compVars, config, statusVars, errors, countVars, outVars,
                    stageVars, poolVars, now, progress_log, saved, calls,
                    partial_failures >>

\* Lines 126-130, the LLM raises: filter catches the exception itself.
FilterLLMRaises ==
    /\ pc = "l126"
    /\ search_results # <<>>
    /\ filtered_results' = FilterFallback(search_results)
    /\ filtered_results_count' = Len(FilterFallback(search_results))
    /\ pc' = "l133"
    /\ UNCHANGED << compVars, config, statusVars, errors, search_results_count,
                    scraped_count, outVars, search_results, scraped_content,
                    poolVars, now, progress_log, saved, raised_at,
                    calls, partial_failures >>
    /\ llm_failures' = llm_failures \cup {"filter"}

(***************************************************************************)
(* Stage 4: _scrape_content                                                *)
(***************************************************************************)

\* What one requests.get can give: a page (status 200) with its text, another
\* status code, or an exception (timeout, connection error).
Fetches ==
    { [outcome |-> "ok", text |-> t] : t \in Texts }
    \cup { [outcome |-> "non200", text |-> ""],
           [outcome |-> "exception", text |-> ""] }

\* A string as the sequence of its pieces. Every modelled string is shorter
\* than max_content_chars, so the slice of line 260 leaves it unchanged.
PageContent(title, text) == << title, " ", text >>

TitleOnly(title) == << title >>

\* Python's truth value of a string: it is not empty.
NonEmpty(content) == \E i \in DOMAIN content : content[i] # ""

\* scrape_single (lines 244-265): the page content on status 200, the title
\* of the search result on any other status and on an exception.
ScrapeSingle(url_data, f) ==
    [ url |-> url_data.link,
      content |-> IF f.outcome = "ok"
                  THEN PageContent(url_data.title, f.text)
                  ELSE TitleOnly(url_data.title) ]

\* Lines 277-279: scraped[url] = content, if content is not empty.
StoreScraped(map, r) ==
    IF NonEmpty(r.content)
    THEN [ u \in DOMAIN map \cup {r.url} |->
             IF u = r.url THEN r.content ELSE map[u] ]
    ELSE map

\* Lines 267-273: one scrape_single task per filtered result is submitted.
ScrapeSubmit ==
    /\ pc = "l135"
    /\ futures' = 1..Len(filtered_results)
    /\ fetch' \in [1..Len(filtered_results) -> Fetches]
    /\ scraped' = <<>>
    /\ pc' = "l275"
    /\ UNCHANGED << compVars, config, statusVars, errors, countVars, outVars,
                    stageVars, response, all_results, unique_results, now,
                    progress_log, saved, raised_at, auxVars >>

\* Lines 275-281: as_completed yields the future of result i.
ScrapeComplete(i) ==
    /\ pc = "l275"
    /\ i \in futures
    /\ futures' = futures \ {i}
    /\ scraped' = StoreScraped(scraped,
                               ScrapeSingle(filtered_results[i], fetch[i]))
    /\ UNCHANGED << compVars,
                    config, statusVars, errors, countVars, outVars, pc,
                    stageVars, response, all_results, unique_results, fetch,
                    now, progress_log, saved, raised_at, calls,
                    llm_failures >>
    /\ partial_failures' = IF fetch[i].outcome = "ok"
                         THEN partial_failures ELSE partial_failures + 1

\* Line 283: every future was yielded.
ScrapeLoopEnd ==
    /\ pc = "l275"
    /\ futures = {}
    /\ pc' = "l283"
    /\ UNCHANGED << compVars, config, statusVars, errors, countVars, outVars,
                    stageVars, poolVars, now, progress_log, saved, raised_at,
                    auxVars >>

\* Lines 283 and 135-136: return; the locals of _scrape_content end.
ScrapeReturn ==
    /\ pc = "l283"
    /\ scraped_content' = scraped
    /\ scraped_count' = Cardinality(DOMAIN scraped)
    /\ fetch' = <<>>
    /\ scraped' = <<>>
    /\ pc' = "l139"
    /\ UNCHANGED << compVars, config, statusVars, errors, search_results_count,
                    filtered_results_count, outVars, search_results,
                    filtered_results, futures, response, all_results,
                    unique_results, now, progress_log, saved, raised_at,
                    auxVars >>

(***************************************************************************)
(* Stages 5-7, completion, and the except clause                           *)
(***************************************************************************)

\* Line 139: if self.config.enable_entity_extraction
CheckExtraction ==
    /\ pc = "l139"
    /\ pc' = IF config.enable_entity_extraction THEN "l140" ELSE "l146"
    /\ UNCHANGED << compVars, config, statusVars, errors, countVars, outVars,
                    stageVars, poolVars, now, progress_log, saved, raised_at,
                    auxVars >>

\* Lines 142-143: pattern matching over the scraped texts; the counts by
\* type are kept as the set of sources that were mined.
Extract ==
    /\ pc = "l142"
    /\ entities_extracted' = Some(DOMAIN scraped_content)
    /\ pc' = "l146"
    /\ UNCHANGED << compVars,
                    config, statusVars, errors, countVars, refined_query,
                    threat_score, summary, stageVars, poolVars, now,
                    progress_log, saved, raised_at, auxVars >>

\* Line 146: if self.config.enable_threat_analysis
CheckAnalysis ==
    /\ pc = "l146"
    /\ pc' = IF config.enable_threat_analysis THEN "l147" ELSE "l157"
    /\ UNCHANGED << compVars, config, statusVars, errors, countVars, outVars,
                    stageVars, poolVars, now, progress_log, saved, raised_at,
                    auxVars >>

\* Lines 149-154: the score of the threat analysis is stored.
Analyze ==
    /\ pc = "l149"
    /\ threat_score' = Some("threat_score")
    /\ pc' = "l157"
    /\ UNCHANGED << compVars,
                    config, statusVars, errors, countVars, refined_query,
                    entities_extracted, summary, stageVars, poolVars, now,
                    progress_log, saved, raised_at, auxVars >>

\* Lines 158-162, the LLM call returns.
SummarizeReturns ==
    /\ pc = "l158"
    /\ summary' = Some("summary")
    /\ pc' = "l165"
    /\ UNCHANGED << compVars,
                    config, statusVars, errors, countVars, refined_query,
                    entities_extracted, threat_score, stageVars, poolVars,
                    now, progress_log, saved, raised_at, auxVars >>

\* Lines 158-162, the LLM call (or the stream callback) raises.
SummarizeRaises ==
    /\ pc = "l158"
    /\ Raise
    /\ UNCHANGED << compVars, config, statusVars, errors, countVars, outVars,
                    stageVars, poolVars, now, progress_log, saved, calls,
                    partial_failures >>
    /\ llm_failures' = llm_failures \cup {"summarize"}

\* Line 169 without storage.
SaveSkipped ==
    /\ pc = "l169"
    /\ ~config.storage
    /\ pc' = "l180"
    /\ UNCHANGED << compVars, config, statusVars, errors, countVars, outVars,
                    stageVars, poolVars, now, progress_log, saved, raised_at,
                    auxVars >>

\* Lines 169-170, storage.save returns.
SaveReturns ==
    /\ pc = "l169"
    /\ config.storage
    /\ saved' = saved + 1
    /\ pc' = "l180"
    /\ UNCHANGED << compVars, config, statusVars, errors, countVars, outVars,
                    stageVars, poolVars, now, progress_log, raised_at,
                    auxVars >>

\* Lines 169-170, storage.save raises.
SaveRaises ==
    /\ pc = "l169"
    /\ config.storage
    /\ Raise
    /\ UNCHANGED << compVars, config, statusVars, errors, countVars, outVars,
                    stageVars, poolVars, now, progress_log, saved, auxVars >>

\* Line 180: return investigation
Return ==
    /\ pc = "l180"
    /\ pc' = "returned"
    /\ UNCHANGED << compVars, config, statusVars, errors, countVars, outVars,
                    stageVars, poolVars, now, progress_log, saved, raised_at,
                    auxVars >>

\* The except clause with its two calls swapped in effect: the entry names
\* the status FAILED instead of the status at the time of the error.
ExceptAddError_StageFailed ==
    /\ pc = "l173"
    /\ AddError(FAILED, "error")
    /\ pc' = "l177"
    /\ UNCHANGED << compVars, config, statusVars, countVars, outVars, stageVars,
                    poolVars, progress_log, saved, raised_at, auxVars >>

\* The except clause without its add_error call.
ExceptAddError_Skipped ==
    /\ pc = "l173"
    /\ pc' = "l177"
    /\ UNCHANGED << compVars, config, statusVars, errors, countVars, outVars,
                    stageVars, poolVars, now, progress_log, saved, raised_at,
                    auxVars >>

\* Lines 173-176: add_error(stage=investigation.status.value, error=str(e))
ExceptAddError ==
    /\ pc = "l173"
    /\ AddError(status, "error")
    /\ pc' = "l177"
    /\ UNCHANGED << compVars, config, statusVars, countVars, outVars, stageVars,
                    poolVars, progress_log, saved, raised_at, auxVars >>

\* Line 177: update_status(FAILED)
ExceptUpdateStatus ==
    /\ pc = "l177"
    /\ UpdateStatus(FAILED)
    /\ pc' = "l178"
    /\ UNCHANGED << compVars,
                    config, errors, countVars, outVars, stageVars, poolVars,
                    progress_log, saved, raised_at, auxVars >>

\* Line 178: raise
ExceptReraise ==
    /\ pc = "l178"
    /\ pc' = "raised"
    /\ UNCHANGED << compVars, config, statusVars, errors, countVars, outVars,
                    stageVars, poolVars, now, progress_log, saved, raised_at,
                    auxVars >>

\* What the caller of investigate gets: the Investigation of line 180
\* (return investigation), or nothing but the exception of line 178 (raise);
\* investigation is a local of investigate (line 106).
CallerReceives ==
    IF pc = "returned"
    THEN Some([ status |-> status, completed_at |-> completed_at,
                errors |-> errors ])
    ELSE None

Next ==
    \/ ProgressReturns
    \/ ProgressRaises
    \/ StageStatus
    \/ RefineReturns
    \/ RefineRaises
    \/ SearchNoEngines
    \/ SearchSubmit
    \/ \E e \in futures : SearchComplete(e)
    \/ SearchDedup
    \/ SearchReturn
    \/ FilterEmpty
    \/ FilterReturns
    \/ FilterLLMRaises
    \/ ScrapeSubmit
    \/ \E i \in futures : ScrapeComplete(i)
    \/ ScrapeLoopEnd
    \/ ScrapeReturn
    \/ CheckExtraction
    \/ Extract
    \/ CheckAnalysis
    \/ Analyze
    \/ SummarizeReturns
    \/ SummarizeRaises
    \/ SaveSkipped
    \/ SaveReturns
    \/ SaveRaises
    \/ Return
    \/ ExceptAddError
    \/ ExceptUpdateStatus
    \/ ExceptReraise

Spec == Init /\ [][Next]_vars

(***************************************************************************)
(* SpecEntity: the public methods of Investigation, called in any order    *)
(***************************************************************************)

InitEntity ==
    /\ config = [ enable_entity_extraction |-> TRUE,
                  enable_threat_analysis |-> TRUE,
                  storage |-> FALSE,
                  progress_callback |-> FALSE,
                  search_engines |-> 0 ]
    /\ InitInvestigation
    /\ InitLocals
    /\ InitObs
    /\ now = 1
    /\ calls = 0
    /\ RetryAtRest
    /\ InitHealth
    /\ ManagerAtRest
    /\ ExecutorAtRest
    /\ TruncateAtRest
    /\ LaterAtRest

\* investigation.update_status(new_status), for any member of the enum.
EntityUpdateStatus(new_status) ==
    /\ calls < MaxCalls
    /\ UpdateStatus(new_status)
    /\ calls' = calls + 1
    /\ UNCHANGED << compVars, config, errors, countVars, outVars, pc, stageVars,
                    poolVars, progress_log, saved, raised_at, llm_failures,
                    partial_failures >>

\* investigation.add_error(stage, error)
EntityAddError(stage) ==
    /\ calls < MaxCalls
    /\ AddError(stage, "error")
    /\ calls' = calls + 1
    /\ UNCHANGED << compVars,
                    config, statusVars, countVars, outVars, pc, stageVars,
                    poolVars, progress_log, saved, raised_at, llm_failures,
                    partial_failures >>

NextEntity ==
    \/ \E s \in InvestigationStatus : EntityUpdateStatus(s)
    \/ EntityAddError(status)

SpecEntity == InitEntity /\ [][NextEntity]_vars

(***************************************************************************)
(* SpecManager: SearchEngineManager.search                                 *)
(* (src/src/adapters/search_engines/manager.py)                            *)
(***************************************************************************)

\* The investigation, untouched while another component is exercised.
CoreAtRest ==
    /\ config = [ enable_entity_extraction |-> TRUE,
                  enable_threat_analysis |-> TRUE,
                  storage |-> FALSE,
                  progress_callback |-> FALSE,
                  search_engines |-> 0 ]
    /\ InitInvestigation
    /\ InitLocals
    /\ InitObs
    /\ now = 1
    /\ calls = 0

\* SearchManagerConfig.max_workers
ManagerMaxWorkers == 5

\* The names under which engines were registered (register_engine).
EngineNames == {"a", "b"}

\* The engines argument of search: None (all registered engines), or a
\* list of names, which may repeat a name or give an unregistered one.
EnginesArguments == { None, Some(<<"a">>), Some(<<"a", "a">>), Some(<<"c">>) }

\* Lines 118-121: engines or list(self._engines.keys()), registered only.
TargetEngines(engines) ==
    LET named == IF engines = None \/ engines[1] = <<>>
                 THEN <<"a", "b">> ELSE engines[1]
    IN SelectSeq(named, LAMBDA e : e \in EngineNames)

\* SearchResult objects (core/entities/search_result.py): the dataclass has
\* the fields title and link (and others not read here), and no field url.
ThreeResults ==
    << [link |-> "x.onion/a", title |-> "t1"],
       [link |-> "x.onion/b", title |-> "t1"],
       [link |-> "x.onion/c", title |-> "t1"] >>

RepeatedResults ==
    << [link |-> "x.onion/a", title |-> "t2"],
       [link |-> "x.onion/a", title |-> "t3"] >>

\* What one engine.search(query, max_results_per_engine) call gives.
\*   exhausted  every attempt of _make_request failed: BaseSearchEngine.search
\*              catches the exception and returns [] (base.py lines 170-172)
\*   results    the parsed results
\*   raises     search itself raises (an engine class that overrides search)
EngineOutcomes ==
    { [kind |-> "exhausted", results |-> <<>>],
      [kind |-> "raises", results |-> <<>>],
      [kind |-> "results", results |-> <<>>],
      [kind |-> "results", results |-> ThreeResults],
      [kind |-> "results", results |-> RepeatedResults] }

\* register_engine: the statistics of a registered engine.
NewStats ==
    [ total_searches |-> 0, successful_searches |-> 0, total_results |-> 0 ]

InitManager ==
    /\ mgr_config \in [ enable_deduplication : BOOLEAN ]
    /\ target_engines = <<>>
    /\ engine_stats = [ n \in EngineNames |-> NewStats ]
    /\ worker = <<>>
    /\ mgr_pc = "l118"
    /\ mgr_futures = {}
    /\ mgr_all_results = <<>>
    /\ seen_urls = {}

otherThanManager ==
    << coreVars, retryVars, healthVars, executor, truncateVars,
       analysisVars, cacheVars, moreVars >>

\* Lines 118-125: no valid engine, search returns [].
ManagerNoEngines ==
    /\ mgr_pc = "l118"
    /\ \E engines \in EnginesArguments :
          /\ TargetEngines(engines) = <<>>
          /\ target_engines' = <<>>
    /\ mgr_pc' = "l125"
    /\ UNCHANGED << mgr_config, engine_stats, worker, mgr_futures,
                    mgr_all_results, seen_urls, otherThanManager >>

\* Lines 118-154: one search_engine task per target name is submitted.
ManagerSubmit ==
    /\ mgr_pc = "l118"
    /\ \E engines \in EnginesArguments :
          /\ TargetEngines(engines) # <<>>
          /\ target_engines' = TargetEngines(engines)
    /\ worker' = [ t \in DOMAIN target_engines' |->
                     [ pc |-> "queued", tmp |-> 0, kind |-> "none",
                       results |-> <<>> ] ]
    /\ mgr_futures' = DOMAIN target_engines'
    /\ mgr_pc' = "l156"
    /\ UNCHANGED << mgr_config, engine_stats, mgr_all_results, seen_urls,
                    otherThanManager >>

\* Number of tasks a pool thread is running.
Running == Cardinality({ t \in DOMAIN worker :
                           worker[t].pc \notin {"queued", "done"} })

\* ThreadPoolExecutor: a queued task is taken by one of max_workers threads.
WorkerStart(t) ==
    /\ worker[t].pc = "queued"
    /\ Running < ManagerMaxWorkers
    /\ worker' = [worker EXCEPT ![t].pc = "l135"]
    /\ UNCHANGED << mgr_config, target_engines, engine_stats, mgr_pc,
                    mgr_futures, mgr_all_results, seen_urls,
                    otherThanManager >>

\* Line 135: results = engine.search(query, max_results_per_engine)
WorkerEngineSearch(t) ==
    /\ worker[t].pc = "l135"
    /\ \E o \in EngineOutcomes :
          worker' = [worker EXCEPT
                        ![t].pc = IF o.kind = "raises" THEN "l146" ELSE "l138",
                        ![t].kind = o.kind,
                        ![t].results = o.results]
    /\ UNCHANGED << mgr_config, target_engines, engine_stats, mgr_pc,
                    mgr_futures, mgr_all_results, seen_urls,
                    otherThanManager >>

\* The statement stats[name][field] += n reads at these lines ...
StatLoadLines == {"l138", "l139", "l140", "l146"}

\* ... and writes at these.
StatStoreLines == {"l138w", "l139w", "l140w", "l146w"}

StatField(l) ==
    CASE l \in {"l138", "l138w", "l146", "l146w"} -> "total_searches"
      [] l \in {"l139", "l139w"} -> "successful_searches"
      [] l \in {"l140", "l140w"} -> "total_results"

StatStoreLine(l) ==
    CASE l = "l138" -> "l138w"
      [] l = "l139" -> "l139w"
      [] l = "l140" -> "l140w"
      [] l = "l146" -> "l146w"

\* Where search_engine goes after the write: the next statement, or return
\* (lines 143 and 147), which completes the future.
StatNextLine(l) ==
    CASE l = "l138w" -> "l139"
      [] l = "l139w" -> "l140"
      [] l = "l140w" -> "done"
      [] l = "l146w" -> "done"

\* Lines 138-140 and 146, first half: the current value is read.
WorkerStatLoad(t) ==
    /\ worker[t].pc \in StatLoadLines
    /\ worker' = [worker EXCEPT
                     ![t].tmp = engine_stats[target_engines[t]]
                                            [StatField(worker[t].pc)],
                     ![t].pc = StatStoreLine(worker[t].pc)]
    /\ UNCHANGED << mgr_config, target_engines, engine_stats, mgr_pc,
                    mgr_futures, mgr_all_results, seen_urls,
                    otherThanManager >>

\* Lines 138-140 and 146, second half: the value read, plus one (plus
\* len(results) at line 140), is written back. No lock is held between.
WorkerStatStore(t) ==
    /\ worker[t].pc \in StatStoreLines
    /\ engine_stats' =
          [engine_stats EXCEPT
              ![target_engines[t]][StatField(worker[t].pc)] =
                  worker[t].tmp + (IF worker[t].pc = "l140w"
                                   THEN Len(worker[t].results) ELSE 1)]
    /\ worker' = [worker EXCEPT ![t].pc = StatNextLine(worker[t].pc)]
    /\ UNCHANGED << mgr_config, target_engines, mgr_pc, mgr_futures,
                    mgr_all_results, seen_urls, otherThanManager >>

\* getattr: does the object have the attribute?
HasAttr(obj, name) == name \in DOMAIN obj

\* Lines 161-171: the results of one future are appended. With
\* deduplication result.url is read; the AttributeError of an object without
\* that attribute leaves the loop for the handler of line 170.
RECURSIVE MergeResults(_, _, _)
MergeResults(results, all, seen) ==
    IF results = <<>> THEN [all |-> all, seen |-> seen]
    ELSE LET result == Head(results)
         IN IF mgr_config.enable_deduplication
            THEN IF ~HasAttr(result, "url")
                 THEN [all |-> all, seen |-> seen]
                 ELSE IF result.url \in seen
                      THEN MergeResults(Tail(results), all, seen)
                      ELSE MergeResults(Tail(results), Append(all, result),
                                        seen \cup {result.url})
            ELSE MergeResults(Tail(results), Append(all, result), seen)

\* Lines 156-171: as_completed yields the finished future of task t.
ManagerYield(t) ==
    /\ mgr_pc = "l156"
    /\ t \in mgr_futures
    /\ worker[t].pc = "done"
    /\ LET merged == MergeResults(worker[t].results, mgr_all_results,
                                  seen_urls)
       IN /\ mgr_all_results' = merged.all
          /\ seen_urls' = merged.seen
    /\ mgr_futures' = mgr_futures \ {t}
    /\ UNCHANGED << mgr_config, target_engines, engine_stats, worker, mgr_pc,
                    otherThanManager >>

\* Line 156: timeout_per_engine seconds passed with a future unfinished;
\* as_completed raises TimeoutError, which leaves search once the pool has
\* been shut down.
ManagerTimeout ==
    /\ mgr_pc = "l156"
    /\ \E t \in mgr_futures : worker[t].pc # "done"
    /\ mgr_pc' = "l156_timeout"
    /\ UNCHANGED << mgr_config, target_engines, engine_stats, worker,
                    mgr_futures, mgr_all_results, seen_urls,
                    otherThanManager >>

\* The with block ends (shutdown waits for every worker) ...
PoolShutDown == \A t \in DOMAIN worker : worker[t].pc = "done"

\* ... and the TimeoutError reaches the caller of search.
ManagerRaise ==
    /\ mgr_pc = "l156_timeout"
    /\ PoolShutDown
    /\ mgr_pc' = "raised"
    /\ UNCHANGED << mgr_config, target_engines, engine_stats, worker,
                    mgr_futures, mgr_all_results, seen_urls,
                    otherThanManager >>

\* Line 175: return all_results
ManagerReturn ==
    /\ mgr_pc = "l156"
    /\ mgr_futures = {}
    /\ mgr_pc' = "l175"
    /\ UNCHANGED << mgr_config, target_engines, engine_stats, worker,
                    mgr_futures, mgr_all_results, seen_urls,
                    otherThanManager >>

NextManager ==
    \/ ManagerNoEngines
    \/ ManagerSubmit
    \/ \E t \in DOMAIN worker : WorkerStart(t)
    \/ \E t \in DOMAIN worker : WorkerEngineSearch(t)
    \/ \E t \in DOMAIN worker : WorkerStatLoad(t)
    \/ \E t \in DOMAIN worker : WorkerStatStore(t)
    \/ \E t \in mgr_futures : ManagerYield(t)
    \/ ManagerTimeout
    \/ ManagerRaise
    \/ ManagerReturn

InitSpecManager ==
    /\ CoreAtRest
    /\ RetryAtRest
    /\ InitHealth
    /\ ExecutorAtRest
    /\ TruncateAtRest
    /\ InitManager
    /\ LaterAtRest

SpecManager == InitSpecManager /\ [][NextManager]_vars

(***************************************************************************)
(* SpecTruncate: the text that scrape_single and ScrapedContent.truncate   *)
(* give for one page, character by character                               *)
(***************************************************************************)

\* Longest title and page text, and largest max_content_chars, explored.
MaxChars == 3

\* The string of n characters.
Chars(n) == [ i \in 1..n |-> "c" ]

Strings == { Chars(n) : n \in 0..MaxChars }

\* Python's s[:n] for n >= 0
Slice(str, n) == SubSeq(str, 1, Min(n, Len(str)))

\* scrape_single (investigation_service.py lines 244-265): the second
\* component of the tuple it returns.
ScrapeSingleContent(title, text, outcome, max_content_chars) ==
    IF outcome = "ok"
    THEN Slice(title \o << " " >> \o text, max_content_chars)
    ELSE title

\* ScrapedContent.truncate (scraped_content.py lines 66-71)
Truncate(title, raw_text, max_chars) ==
    IF raw_text = <<>>
    THEN title
    ELSE LET combined == title \o << " " >> \o raw_text
         IN IF Len(combined) > max_chars
            THEN Slice(combined, max_chars) ELSE combined

\* One search result with its title, the outcome of its fetch, the text of
\* the page, and InvestigationConfig.max_content_chars.
InitTruncate ==
    /\ page \in [ title : Strings, text : Strings,
                   outcome : {"ok", "non200", "exception"},
                   max_content_chars : 1..MaxChars ]
    /\ content_out = None

otherThanTruncate ==
    << coreVars, retryVars, healthVars, managerVars, executor,
       analysisVars, cacheVars, moreVars >>

\* Lines 277-279: scrape_single ran; its content is stored in the map
\* unless it is empty.
ScrapeSingleStored ==
    /\ content_out = None
    /\ LET content == ScrapeSingleContent(page.title, page.text, page.outcome,
                                          page.max_content_chars)
       IN content_out' = Some([ by |-> "scrape_single",
                                stored |-> content # <<>>,
                                content |-> content ])
    /\ UNCHANGED << page, otherThanTruncate >>

\* ScrapedContent(url, title=.., raw_text=..).truncate(max_chars); raw_text
\* is the text of a fetched page, and None when the fetch failed.
TruncateCalled ==
    /\ content_out = None
    /\ LET raw_text == IF page.outcome = "ok" THEN page.text ELSE <<>>
           content == Truncate(page.title, raw_text, page.max_content_chars)
       IN content_out' = Some([ by |-> "truncate",
                                stored |-> TRUE,
                                content |-> content ])
    /\ UNCHANGED << page, otherThanTruncate >>

NextTruncate == ScrapeSingleStored \/ TruncateCalled

InitSpecTruncate ==
    /\ CoreAtRest
    /\ RetryAtRest
    /\ InitHealth
    /\ ManagerAtRest
    /\ ExecutorAtRest
    /\ InitTruncate
    /\ LaterAtRest

SpecTruncate == InitSpecTruncate /\ [][NextTruncate]_vars

(***************************************************************************)
(* SpecRetry: BaseSearchEngine._make_request and search                    *)
(* (src/src/adapters/search_engines/base.py)                               *)
(***************************************************************************)

\* Largest max_retries an engine is constructed with.
MaxRetries == 3

\* What one session.get followed by response.raise_for_status() can give:
\*   ok                a response that raise_for_status accepts (an empty
\*                     result page included)
\*   http_error        a response with a 4xx/5xx status: raise_for_status
\*                     raises HTTPError
\*   timeout, connection_error   session.get raises
AttemptOutcomes == {"ok", "http_error", "timeout", "connection_error"}

\* The failures that are transient: no response was received.
Transient == {"timeout", "connection_error"}

\* What _parse_results makes of a response.
ParsedResults == { <<>>, ThreeResults }

\* search(query) is called on an engine constructed with max_retries, with
\* or without a session set.
InitRetry ==
    /\ session \in BOOLEAN
    /\ max_retries \in 0..MaxRetries
    /\ attempt = 0
    /\ attempt_log = <<>>
    /\ request_pc = "l77"
    /\ search_value = None

otherThanRetry ==
    << coreVars, healthVars, managerVars, executor, truncateVars,
       analysisVars, cacheVars, moreVars >>

\* Lines 77-78: no session, RuntimeError before any attempt.
RequestNoSession ==
    /\ request_pc = "l77"
    /\ ~session
    /\ request_pc' = "l78"
    /\ UNCHANGED << session, max_retries, attempt, attempt_log, search_value,
                    otherThanRetry >>

\* Lines 80-82: the loop over range(max_retries) is entered.
RequestEnterLoop ==
    /\ request_pc = "l77"
    /\ session
    /\ request_pc' = "l82"
    /\ UNCHANGED << session, max_retries, attempt, attempt_log, search_value,
                    otherThanRetry >>

\* Lines 83-107: one attempt. A response that raise_for_status accepts is
\* returned; any exception is logged, and re-raised if this was the last
\* attempt.
RequestAttempt(o) ==
    /\ request_pc = "l82"
    /\ attempt < max_retries
    /\ attempt_log' = Append(attempt_log, o)
    /\ IF o = "ok"
       THEN request_pc' = "l100" /\ attempt' = attempt
       ELSE IF attempt = max_retries - 1
            THEN request_pc' = "l107" /\ attempt' = attempt
            ELSE request_pc' = "l82" /\ attempt' = attempt + 1
    /\ UNCHANGED << session, max_retries, search_value, otherThanRetry >>

\* Line 109: range(max_retries) is exhausted without a return or a raise
\* (max_retries is 0); _make_request returns None.
RequestLoopEnds ==
    /\ request_pc = "l82"
    /\ attempt >= max_retries
    /\ request_pc' = "l109"
    /\ UNCHANGED << session, max_retries, attempt, attempt_log, search_value,
                    otherThanRetry >>

\* search, lines 164-168: the response is parsed and the results returned.
SearchParses ==
    /\ request_pc = "l100"
    /\ \E results \in ParsedResults : search_value' = Some(results)
    /\ request_pc' = "l168"
    /\ UNCHANGED << session, max_retries, attempt, attempt_log,
                    otherThanRetry >>

\* search, lines 160-162: no response, [] is returned.
SearchNoResponse ==
    /\ request_pc = "l109"
    /\ search_value' = Some(<<>>)
    /\ request_pc' = "l162"
    /\ UNCHANGED << session, max_retries, attempt, attempt_log,
                    otherThanRetry >>

\* search, lines 170-172: the exception of _make_request (or of
\* _parse_results) is caught and [] is returned.
SearchCatches ==
    /\ request_pc \in {"l78", "l107", "l100"}
    /\ search_value' = Some(<<>>)
    /\ request_pc' = "l172"
    /\ UNCHANGED << session, max_retries, attempt, attempt_log,
                    otherThanRetry >>

NextRetry ==
    \/ RequestNoSession
    \/ RequestEnterLoop
    \/ \E o \in AttemptOutcomes : RequestAttempt(o)
    \/ RequestLoopEnds
    \/ SearchParses
    \/ SearchNoResponse
    \/ SearchCatches

InitSpecRetry ==
    /\ CoreAtRest
    /\ InitHealth
    /\ ManagerAtRest
    /\ ExecutorAtRest
    /\ TruncateAtRest
    /\ InitRetry
    /\ LaterAtRest

SpecRetry == InitSpecRetry /\ [][NextRetry]_vars

(***************************************************************************)
(* SpecHealth: the health record of one SearchEngineProvider under any     *)
(* sequence of search and check_health calls                               *)
(* (src/src/core/interfaces/search_engine.py)                              *)
(***************************************************************************)

\* Number of calls made on the provider.
MaxHealthCalls == 5

\* _record_success
RecordSuccess(h) ==
    [h EXCEPT !.status = ONLINE,
              !.response_time_ms = Some("elapsed_ms"),
              !.consecutive_failures = 0]

\* _record_failure
RecordFailure(h, error) ==
    [h EXCEPT !.consecutive_failures = h.consecutive_failures + 1,
              !.error_message = Some(error),
              !.status = IF h.consecutive_failures + 1 >= 3
                         THEN OFFLINE ELSE DEGRADED]

otherThanHealth ==
    << coreVars, retryVars, managerVars, executor, truncateVars,
       analysisVars, cacheVars, moreVars >>

\* search, lines 126-137: status 200, the results are parsed.
ProviderSearchSucceeds ==
    /\ health_calls < MaxHealthCalls
    /\ health' = RecordSuccess(health)
    /\ health_calls' = health_calls + 1
    /\ UNCHANGED otherThanHealth

\* search, lines 138-147: another status code.
ProviderSearchHttpStatus ==
    /\ health_calls < MaxHealthCalls
    /\ health' = RecordFailure(health, "HTTP")
    /\ health_calls' = health_calls + 1
    /\ UNCHANGED otherThanHealth

\* search, lines 149-157: requests.Timeout
ProviderSearchTimesOut ==
    /\ health_calls < MaxHealthCalls
    /\ health' = RecordFailure(health, "Timeout")
    /\ health_calls' = health_calls + 1
    /\ UNCHANGED otherThanHealth

\* search, lines 158-166: any other exception, of requests.get or of
\* parse_results.
ProviderSearchRaises ==
    /\ health_calls < MaxHealthCalls
    /\ health' = RecordFailure(health, "error")
    /\ health_calls' = health_calls + 1
    /\ UNCHANGED otherThanHealth

\* check_health, lines 242-245: status 200.
CheckHealthOk ==
    /\ health_calls < MaxHealthCalls
    /\ health' = [health EXCEPT !.status = ONLINE,
                                !.response_time_ms = Some("elapsed_ms"),
                                !.consecutive_failures = 0]
    /\ health_calls' = health_calls + 1
    /\ UNCHANGED otherThanHealth

\* check_health, lines 246-248: another status code.
CheckHealthHttpStatus ==
    /\ health_calls < MaxHealthCalls
    /\ health' = [health EXCEPT !.status = DEGRADED,
                                !.error_message = Some("HTTP")]
    /\ health_calls' = health_calls + 1
    /\ UNCHANGED otherThanHealth

\* check_health, lines 250-253: requests.get raises.
CheckHealthRaises ==
    /\ health_calls < MaxHealthCalls
    /\ health' = [health EXCEPT
                     !.status = OFFLINE,
                     !.error_message = Some("error"),
                     !.consecutive_failures = health.consecutive_failures + 1]
    /\ health_calls' = health_calls + 1
    /\ UNCHANGED otherThanHealth

NextHealth ==
    \/ ProviderSearchSucceeds
    \/ ProviderSearchHttpStatus
    \/ ProviderSearchTimesOut
    \/ ProviderSearchRaises
    \/ CheckHealthOk
    \/ CheckHealthHttpStatus
    \/ CheckHealthRaises

InitSpecHealth ==
    /\ CoreAtRest
    /\ RetryAtRest
    /\ ManagerAtRest
    /\ ExecutorAtRest
    /\ TruncateAtRest
    /\ InitHealth
    /\ LaterAtRest

SpecHealth == InitSpecHealth /\ [][NextHealth]_vars

(***************************************************************************)
(* SpecExecutor: the thread pool of _search_all_engines                    *)
(* (investigation_service.py lines 198-210)                                *)
(***************************************************************************)

\* Largest number of search engines handed to the service.
MaxProviders == 6

\* The service was built with a list of 0..MaxProviders engines and
\* _search_all_engines is at line 198.
InitExecutor ==
    \E n \in 0..MaxProviders :
        executor = [ providers |-> n, max_workers |-> 0, task |-> <<>>,
                     pc |-> "l198" ]

otherThanExecutor ==
    << coreVars, retryVars, healthVars, managerVars, truncateVars,
       analysisVars, cacheVars, moreVars >>

\* Line 198 with an empty list: ThreadPoolExecutor(max_workers=0) raises
\* ValueError.
ExecutorRejects ==
    /\ executor.pc = "l198"
    /\ executor.providers = 0
    /\ executor' = [executor EXCEPT !.pc = "raised"]
    /\ UNCHANGED otherThanExecutor

\* Lines 198-202: the pool is built with max_workers=len(self.search_engines)
\* and one engine.search task per engine is submitted.
ExecutorSubmits ==
    /\ executor.pc = "l198"
    /\ executor.providers > 0
    /\ executor' = [executor EXCEPT
                       !.max_workers = executor.providers,
                       !.task = [ i \in 1..executor.providers |-> "queued" ],
                       !.pc = "l204"]
    /\ UNCHANGED otherThanExecutor

\* The engine.search tasks that a pool thread is running.
RunningTasks == { i \in DOMAIN executor.task : executor.task[i] = "running" }

\* A pool thread takes a queued task; the pool has at most max_workers
\* threads.
TaskStarts(i) ==
    /\ executor.pc = "l204"
    /\ executor.task[i] = "queued"
    /\ Cardinality(RunningTasks) < executor.max_workers
    /\ executor' = [executor EXCEPT !.task[i] = "running"]
    /\ UNCHANGED otherThanExecutor

\* engine.search returns or raises: the future is done.
TaskFinishes(i) ==
    /\ executor.pc = "l204"
    /\ executor.task[i] = "running"
    /\ executor' = [executor EXCEPT !.task[i] = "done"]
    /\ UNCHANGED otherThanExecutor

\* Lines 204-212: every future was yielded and the with block ends.
ExecutorShutsDown ==
    /\ executor.pc = "l204"
    /\ \A i \in DOMAIN executor.task : executor.task[i] = "done"
    /\ executor' = [executor EXCEPT !.pc = "l212"]
    /\ UNCHANGED otherThanExecutor

NextExecutor ==
    \/ ExecutorRejects
    \/ ExecutorSubmits
    \/ \E i \in DOMAIN executor.task : TaskStarts(i)
    \/ \E i \in DOMAIN executor.task : TaskFinishes(i)
    \/ ExecutorShutsDown

InitSpecExecutor ==
    /\ CoreAtRest
    /\ RetryAtRest
    /\ InitHealth
    /\ ManagerAtRest
    /\ TruncateAtRest
    /\ InitExecutor
    /\ LaterAtRest

SpecExecutor == InitSpecExecutor /\ [][NextExecutor]_vars

(***************************************************************************)
(* SpecThreat: ThreatIntelligence.add_ioc and calculate_threat_score        *)
(* (src/src/core/entities/threat_intel.py)                                 *)
(***************************************************************************)

\* Length of the IOC list of one ThreatIntelligence.
MaxIocs == 2

ThreatLevels ==
    { ThreatLevel.UNKNOWN, ThreatLevel.LOW, ThreatLevel.MEDIUM,
      ThreatLevel.HIGH, ThreatLevel.CRITICAL }

\* IOC.confidence, in percent (0.5, 0.8 the default, 1.0).
Confidences == { 50, 80, 100 }

\* The IOCs handed to add_ioc: the two fields the score reads.
IOCs == [ threat_level : ThreatLevels, confidence : Confidences ]

\* Lines 166-172, in percent.
level_weights(l) ==
    CASE l = ThreatLevel.UNKNOWN -> 10
      [] l = ThreatLevel.LOW -> 25
      [] l = ThreatLevel.MEDIUM -> 50
      [] l = ThreatLevel.HIGH -> 75
      [] l = ThreatLevel.CRITICAL -> 100

\* Lines 175-178: sum(level_weights[ioc.threat_level] * ioc.confidence), in
\* units of 1/10000.
RECURSIVE total_weight(_)
total_weight(iocs) ==
    IF iocs = <<>> THEN 0
    ELSE level_weights(Head(iocs).threat_level) * Head(iocs).confidence
         + total_weight(Tail(iocs))

Min2(a, b) == IF a <= b THEN a ELSE b
Max2(a, b) == IF a >= b THEN a ELSE b

\* Lines 181-182: min(100, (total_weight / max(len(iocs), 1)) * 100), in
\* hundredths, rounded down (the thresholds below are whole numbers, so the
\* rounding changes no comparison).
ScoreOf(iocs) == Min2(10000, total_weight(iocs) \div Max2(Len(iocs), 1))

\* Lines 185-194.
LevelOf(score) ==
    IF score >= 8000 THEN ThreatLevel.CRITICAL
    ELSE IF score >= 6000 THEN ThreatLevel.HIGH
    ELSE IF score >= 4000 THEN ThreatLevel.MEDIUM
    ELSE IF score >= 2000 THEN ThreatLevel.LOW
    ELSE ThreatLevel.UNKNOWN

otherThanThreat ==
    << coreVars, adapterVars, analyzer, extractVars, cacheVars,
       moreVars >>

\* add_ioc, lines 155-158: the IOC is appended; the score is not touched.
AddIoc ==
    /\ Len(threat_intel.iocs) < MaxIocs
    /\ \E ioc \in IOCs :
          threat_intel' =
              [threat_intel EXCEPT !.iocs = Append(@, ioc)]
    /\ threat_pc' = "changed"
    /\ UNCHANGED << score_returned, otherThanThreat >>

\* iocs is a public list field of the dataclass (line 139); its holder
\* removes one IOC from it (list.pop(i)).
WithoutIndex(seq, i) ==
    [ j \in 1..(Len(seq) - 1) |-> IF j < i THEN seq[j] ELSE seq[j + 1] ]

RemoveIoc ==
    /\ \E i \in 1..Len(threat_intel.iocs) :
          threat_intel' =
              [threat_intel EXCEPT !.iocs = WithoutIndex(@, i)]
    /\ threat_pc' = "changed"
    /\ UNCHANGED << score_returned, otherThanThreat >>

\* calculate_threat_score, lines 162-163: no IOC, 0.0 is returned and no
\* field is assigned.
CalculateNoIocs ==
    /\ threat_intel.iocs = <<>>
    /\ score_returned' = Some(0)
    /\ threat_pc' = "calculated"
    /\ UNCHANGED << threat_intel, otherThanThreat >>

\* calculate_threat_score, lines 165-196.
CalculateThreatScore ==
    /\ threat_intel.iocs # <<>>
    /\ threat_intel' =
          [threat_intel EXCEPT
              !.threat_score = ScoreOf(threat_intel.iocs),
              !.overall_threat_level = LevelOf(ScoreOf(threat_intel.iocs))]
    /\ score_returned' = Some(ScoreOf(threat_intel.iocs))
    /\ threat_pc' = "calculated"
    /\ UNCHANGED otherThanThreat

NextThreat ==
    \/ AddIoc
    \/ RemoveIoc
    \/ CalculateNoIocs
    \/ CalculateThreatScore

InitSpecThreat ==
    /\ CoreAtRest
    /\ RetryAtRest
    /\ InitHealth
    /\ ManagerAtRest
    /\ ExecutorAtRest
    /\ TruncateAtRest
    /\ ThreatAtRest
    /\ AnalyzerAtRest
    /\ ExtractorAtRest
    /\ CacheAtRest
    /\ MoreAtRest

SpecThreat == InitSpecThreat /\ [][NextThreat]_vars

(***************************************************************************)
(* SpecAnalyzer: ThreatAnalyzer._generate_iocs                             *)
(* (src/src/core/services/threat_analyzer.py)                              *)
(***************************************************************************)

\* Length of the entity list handed to _generate_iocs.
MaxEntities == 2

\* ThreatAnalysisConfig.min_confidence, in percent: 0.5 is the default.
MinConfidences == { 0, 50, 90 }

\* ExtractedEntity.confidence, in percent.
EntityConfidences == { 40, 50, 90 }

\* The entity types and, for hashes, the metadata['hash_type'] strings the
\* entities are drawn from ("" when the metadata has no such key).
EntityKinds ==
    { [entity_type |-> t, hash_type |-> ""] :
          t \in { "email", "phone", "onion_url" } }
    \cup { [entity_type |-> "hash", hash_type |-> h] :
          h \in { "MD5", "sha1", "SHA256", "SHA512", "" } }

\* The entity lists of length n; the value of an entity is its position, so
\* that all values differ.
EntityLists(n) ==
    { [ i \in 1..n |->
          [ entity_type |-> kinds[i].entity_type,
            hash_type |-> kinds[i].hash_type,
            confidence |-> confs[i],
            value |-> i ] ] :
      kinds \in [1..n -> EntityKinds], confs \in [1..n -> EntityConfidences] }

\* str.upper() on the hash-type strings.
Upper(h) == IF h = "sha1" THEN "SHA1" ELSE h

\* Lines 35-42 and 123-137: the IOC type of an entity, None when the loop
\* goes on to the next entity without one.
IocTypeOf(entity) ==
    CASE entity.entity_type = "email" -> Some("email")
      [] entity.entity_type = "domain" -> Some("domain")
      [] entity.entity_type = "ip_address" -> Some("ip")
      [] entity.entity_type = "crypto_wallet" -> Some("crypto_wallet")
      [] entity.entity_type = "cve" -> Some("cve")
      [] entity.entity_type = "onion_url" -> Some("url")
      [] entity.entity_type = "hash" ->
            ( CASE Upper(entity.hash_type) = "MD5" -> Some("md5")
                [] Upper(entity.hash_type) = "SHA1" -> Some("sha1")
                [] Upper(entity.hash_type) = "SHA256" -> Some("sha256")
                [] OTHER -> None )
      [] OTHER -> None

otherThanAnalyzer ==
    << coreVars, adapterVars, threatVars, extractVars, cacheVars,
       moreVars >>

\* The entity the for loop of line 119 is at.
LoopEntity == analyzer.entities[analyzer.pc]

InLoop == analyzer.pc \in 1..Len(analyzer.entities)

\* Lines 120-121: confidence below the floor, continue.
GenerateSkipsBelowFloor ==
    /\ InLoop
    /\ LoopEntity.confidence < analyzer.min_confidence
    /\ analyzer' = [analyzer EXCEPT !.pc = @ + 1]
    /\ UNCHANGED otherThanAnalyzer

\* Lines 123-137: no IOC type for the entity, continue.
GenerateSkipsUnmapped ==
    /\ InLoop
    /\ ~(LoopEntity.confidence < analyzer.min_confidence)
    /\ IocTypeOf(LoopEntity) = None
    /\ analyzer' = [analyzer EXCEPT !.pc = @ + 1]
    /\ UNCHANGED otherThanAnalyzer

\* GenerateAddsIoc without the test of lines 120-121: the IOC is added
\* whatever the confidence.
GenerateAddsIoc_NoFloor ==
    /\ InLoop
    /\ IocTypeOf(LoopEntity) # None
    /\ analyzer' =
          [analyzer EXCEPT
              !.iocs = Append(@, [ ioc_type |-> IocTypeOf(LoopEntity)[1],
                                   value |-> LoopEntity.value,
                                   confidence |-> LoopEntity.confidence ]),
              !.pc = @ + 1]
    /\ UNCHANGED otherThanAnalyzer

\* Lines 139-147: IOC(ioc_type, value, confidence) is added.
GenerateAddsIoc ==
    /\ InLoop
    /\ ~(LoopEntity.confidence < analyzer.min_confidence)
    /\ IocTypeOf(LoopEntity) # None
    /\ analyzer' =
          [analyzer EXCEPT
              !.iocs = Append(@, [ ioc_type |-> IocTypeOf(LoopEntity)[1],
                                   value |-> LoopEntity.value,
                                   confidence |-> LoopEntity.confidence ]),
              !.pc = @ + 1]
    /\ UNCHANGED otherThanAnalyzer

\* The loop is over, _generate_iocs returns.
GenerateReturns ==
    /\ analyzer.pc = Len(analyzer.entities) + 1
    /\ ~analyzer.done
    /\ analyzer' = [analyzer EXCEPT !.done = TRUE]
    /\ UNCHANGED otherThanAnalyzer

NextAnalyzer ==
    \/ GenerateSkipsBelowFloor
    \/ GenerateSkipsUnmapped
    \/ GenerateAddsIoc
    \/ GenerateReturns

\* _generate_iocs is entered with a fresh ThreatIntelligence, a floor and an
\* entity list.
InitAnalyzer ==
    \E n \in 0..MaxEntities :
        \E es \in EntityLists(n), floor \in MinConfidences :
            analyzer = [ min_confidence |-> floor, entities |-> es,
                         iocs |-> <<>>, pc |-> 1, done |-> FALSE ]

InitSpecAnalyzer ==
    /\ CoreAtRest
    /\ RetryAtRest
    /\ InitHealth
    /\ ManagerAtRest
    /\ ExecutorAtRest
    /\ TruncateAtRest
    /\ ThreatAtRest
    /\ ExtractorAtRest
    /\ CacheAtRest
    /\ InitAnalyzer
    /\ MoreAtRest

SpecAnalyzer == InitSpecAnalyzer /\ [][NextAnalyzer]_vars

(***************************************************************************)
(* SpecExtractor: EntityExtractor.extract on texts of hexadecimal words,   *)
(* and STIXExporter._detect_hash_type                                      *)
(* (src/src/core/services/entity_extractor.py,                             *)
(*  src/src/adapters/export/stix_export.py)                                *)
(***************************************************************************)

\* Number of words of one text, and of extract calls on one extractor.
MaxWords == 2
MaxExtractCalls == 2

\* The words texts are made of. Each is a run of hexadecimal digits set off
\* by blanks: chars names the string, lower its str.lower(), length its
\* len(), and patterns the PATTERNS (lines 85-153) that match it. A word
\* that starts with 1 and has neither 0 nor upper-case O, I or lower-case l
\* is also a legacy Bitcoin address. No other pattern matches these words
\* (no dot, colon, at sign, or run of ten decimal digits).
Words ==
    { [ chars |-> "a0b1(32)", lower |-> "a0b1(32)", length |-> 32,
        patterns |-> { "md5" } ],
      [ chars |-> "A0B1(32)", lower |-> "a0b1(32)", length |-> 32,
        patterns |-> { "md5" } ],
      [ chars |-> "1a2b(32)", lower |-> "1a2b(32)", length |-> 32,
        patterns |-> { "btc_legacy", "md5" } ],
      [ chars |-> "1A2B(32)", lower |-> "1a2b(32)", length |-> 32,
        patterns |-> { "btc_legacy", "md5" } ],
      [ chars |-> "a0b1(40)", lower |-> "a0b1(40)", length |-> 40,
        patterns |-> { "sha1" } ],
      [ chars |-> "a0b1(64)", lower |-> "a0b1(64)", length |-> 64,
        patterns |-> { "sha256" } ],
      [ chars |-> "a0b1(128)", lower |-> "a0b1(128)", length |-> 128,
        patterns |-> {} ],
      [ chars |-> "a0b1(16)", lower |-> "a0b1(16)", length |-> 16,
        patterns |-> {} ] }

WordTexts == UNION { [1..n -> Words] : n \in 0..MaxWords }

\* str.lower() on the strings of Words.
WordLower(chars) == (CHOOSE w \in Words : w.chars = chars).lower

\* PATTERNS[pattern].finditer(text): the matches in text order.
Matches(text, pattern) == SelectSeq(text, LAMBDA w : pattern \in w.patterns)

\* _extract_crypto_wallets, lines 287-299, for one pattern: the values in
\* the order _should_add is asked about them; value is match.group().
WalletCandidates(text, pattern, currency) ==
    LET m == Matches(text, pattern)
    IN  [ i \in 1..Len(m) |->
            [ entity_type |-> "crypto_wallet", value |-> m[i].chars,
              key |-> m[i].chars, hash_type |-> "", currency |-> currency ] ]

\* _extract_hashes, lines 430-470, for one pattern: value is
\* match.group().lower().
HashCandidates(text, pattern, hash_type) ==
    LET m == Matches(text, pattern)
    IN  [ i \in 1..Len(m) |->
            [ entity_type |-> "hash", value |-> m[i].lower,
              key |-> m[i].lower, hash_type |-> hash_type,
              currency |-> "" ] ]

\* extract, lines 184-212, on a text of Words: the wallet patterns in the
\* order of lines 279-285, then SHA256, SHA1, MD5. key is the argument of
\* _should_add.
Candidates(text) ==
    WalletCandidates(text, "btc_legacy", "BTC")
    \o WalletCandidates(text, "btc_segwit", "BTC")
    \o WalletCandidates(text, "eth", "ETH")
    \o WalletCandidates(text, "xmr", "XMR")
    \o WalletCandidates(text, "ltc", "LTC")
    \o HashCandidates(text, "sha256", "SHA256")
    \o HashCandidates(text, "sha1", "SHA1")
    \o HashCandidates(text, "md5", "MD5")

\* _should_add (lines 245-252, deduplicate at its default True) and
\* result.add_entity over the candidates: st holds _seen_values and
\* result.entities.
RECURSIVE AddCandidates(_, _)
AddCandidates(st, cands) ==
    IF cands = <<>> THEN st
    ELSE LET c == Head(cands)
         IN  IF WordLower(c.key) \in st._seen_values
             THEN AddCandidates(st, Tail(cands))
             ELSE AddCandidates(
                      [ _seen_values |-> st._seen_values \cup { WordLower(c.key) },
                        entities |->
                            Append(st.entities,
                                   [ entity_type |-> c.entity_type,
                                     value |-> c.value,
                                     hash_type |-> c.hash_type,
                                     currency |-> c.currency ]) ],
                      Tail(cands))

\* _extract_hashes, lines 430-470 with the patterns of lines 140-146: the
\* metadata['hash_type'] extraction gives a hash string, "unknown" when no
\* hash pattern matches it.
ExtractedHashType(word) ==
    IF "sha256" \in word.patterns THEN "SHA256"
    ELSE IF "sha1" \in word.patterns THEN "SHA1"
    ELSE IF "md5" \in word.patterns THEN "MD5"
    ELSE "unknown"

\* _detect_hash_type, lines 239-252, on len(hash_value).
DetectHashType(length) ==
    IF length = 32 THEN "MD5"
    ELSE IF length = 40 THEN "SHA-1"
    ELSE IF length = 64 THEN "SHA-256"
    ELSE IF length = 128 THEN "SHA-512"
    ELSE "unknown"

otherThanExtractor ==
    << coreVars, adapterVars, threatVars, analyzer, cacheVars,
       moreVars >>

\* extract, lines 181-214: _seen_values is cleared, the extractors run in
\* turn, the result is returned.
ExtractCall ==
    /\ extractor.calls < MaxExtractCalls
    /\ \E text \in WordTexts :
          LET st == AddCandidates([ _seen_values |-> {}, entities |-> <<>> ],
                                  Candidates(text))
          IN  extractor' = [ _seen_values |-> st._seen_values,
                             text |-> text,
                             entities |-> st.entities,
                             calls |-> extractor.calls + 1 ]
    /\ stix_hash' = None
    /\ UNCHANGED otherThanExtractor

\* _create_file_hash, line 208: the exporter detects the hash type of a
\* hash string of the text.
StixDetectsHashType ==
    /\ extractor.calls > 0
    /\ \E i \in 1..Len(extractor.text) :
          stix_hash' =
              Some([ word |-> extractor.text[i],
                     hash_type |-> DetectHashType(extractor.text[i].length) ])
    /\ UNCHANGED << extractor, otherThanExtractor >>

NextExtractor ==
    \/ ExtractCall
    \/ StixDetectsHashType

InitSpecExtractor ==
    /\ CoreAtRest
    /\ RetryAtRest
    /\ InitHealth
    /\ ManagerAtRest
    /\ ExecutorAtRest
    /\ TruncateAtRest
    /\ ThreatAtRest
    /\ AnalyzerAtRest
    /\ CacheAtRest
    /\ ExtractorAtRest
    /\ MoreAtRest

SpecExtractor == InitSpecExtractor /\ [][NextExtractor]_vars

(***************************************************************************)
(* SpecCache: MemoryCache and SQLiteCache under any sequence of calls and  *)
(* the passage of time                                                     *)
(* (src/src/infrastructure/cache/memory.py, sqlite.py)                     *)
(***************************************************************************)

\* The last value time.time() takes.
MaxTime == 2

\* max_size of the MemoryCache under test, and its cleanup_interval in
\* seconds.
CacheMaxSize == 2
CleanupInterval == 1

Keys == { "key1", "key2", "key3" }
Values == { "value1", "value2" }

\* ttl: None, or a timedelta, given by its total_seconds().
TTLs == { None, Some(1) }

\* pickle.dumps and pickle.loads.
PickleDumps(value) == << "pickle", value >>
PickleLoads(blob) == blob[2]

\* IsExpired with >= for >: an entry counts as expired at its expiry time.
IsExpired_AtExpiry(expires_at, t) == expires_at # None /\ t >= expires_at[1]

\* CacheEntry.is_expired (lines 19-23) and the test of sqlite.py lines 94
\* and 162, at time t.
IsExpired(expires_at, t) == expires_at # None /\ t > expires_at[1]

\* Lines 93-95 / 116-118: expires_at of a set call at time t.
ExpiresAt(ttl, t) == IF ttl = None THEN None ELSE Some(t + ttl[1])

\* The keys of the dict, in insertion order.
KeysOf(cache) == { cache[i].key : i \in 1..Len(cache) }
IndexOf(cache, key) == CHOOSE i \in 1..Len(cache) : cache[i].key = key

\* del self._cache[key]
DelKey(cache, key) == SelectSeq(cache, LAMBDA e : e.key # key)

\* _maybe_cleanup and _cleanup_expired, lines 161-177.
MaybeCleanup(mc, t) ==
    IF t - mc._last_cleanup > mc._cleanup_interval
    THEN [mc EXCEPT
             !._cache = SelectSeq(@, LAMBDA e : ~IsExpired(e.expires_at, t)),
             !._last_cleanup = t]
    ELSE mc

\* _evict_oldest, lines 179-188: min over the keys by created_at, the first
\* such key in dict order; None for an empty dict.
OldestKey(cache) ==
    IF cache = <<>> THEN None
    ELSE LET i == CHOOSE i \in 1..Len(cache) :
                      /\ \A j \in 1..Len(cache) :
                            cache[i].created_at <= cache[j].created_at
                      /\ \A j \in 1..(i - 1) :
                            cache[j].created_at > cache[i].created_at
         IN  Some(cache[i].key)

\* self._cache[key] = CacheEntry(...): an existing key keeps its place in
\* the dict, a new one goes last.
Assign(cache, entry) ==
    IF entry.key \in KeysOf(cache)
    THEN [cache EXCEPT ![IndexOf(cache, entry.key)] = entry]
    ELSE Append(cache, entry)

\* Observation: what was last set for the key and neither deleted, cleared
\* nor evicted since; None if nothing.
WrittenFor(key) ==
    IF \E w \in cache_written : w.key = key
    THEN Some(CHOOSE w \in cache_written : w.key = key)
    ELSE None

Unwritten(key) == { w \in cache_written : w.key # key }

\* Observation: the keys of the dict, the least recently set or read first.
Touch(used, key) == Append(SelectSeq(used, LAMBDA k : k # key), key)
Present(used, cache) == SelectSeq(used, LAMBDA k : k \in KeysOf(cache))

\* Observation: a call and its result, with the time it was made at, what
\* was written for its key then, and the key it evicted.
Call(cache, op, key, result, evicted) ==
    Some([ cache |-> cache, op |-> op, key |-> key, result |-> result,
           at |-> cache_time, written |-> WrittenFor(key),
           evicted |-> evicted,
           lru |-> IF evicted = None THEN None ELSE Some(Head(cache_used)) ])

otherThanCache ==
    << coreVars, adapterVars, analysisVars, cache_args, moreVars >>

\* time.time() moves on.
TimePasses ==
    /\ cache_time < MaxTime
    /\ cache_time' = cache_time + 1
    /\ UNCHANGED << memory_cache, sqlite_cache, cache_call, cache_written,
                    cache_used, otherThanCache >>

\* MemoryCache.get, lines 60-77.
MemoryGet ==
    /\ memory_cache # None
    /\ \E key \in cache_args.keys :
          LET mc == MaybeCleanup(memory_cache[1], cache_time)
              hit == /\ key \in KeysOf(mc._cache)
                     /\ ~IsExpired(mc._cache[IndexOf(mc._cache, key)].expires_at,
                                   cache_time)
              cache == IF hit THEN mc._cache ELSE DelKey(mc._cache, key)
          IN  /\ memory_cache' = Some([mc EXCEPT !._cache = cache])
              /\ cache_call' =
                    Call("memory", "get", key,
                         IF hit
                         THEN Some(mc._cache[IndexOf(mc._cache, key)].value)
                         ELSE None,
                         None)
              /\ cache_used' =
                    Present(IF hit THEN Touch(cache_used, key)
                            ELSE cache_used, cache)
    /\ UNCHANGED << sqlite_cache, cache_time, cache_written, otherThanCache >>

\* MemorySet that evicts whenever the dict is full, also when the key is in
\* it.
MemorySet_EvictsOnOverwrite ==
    /\ memory_cache # None
    /\ \E key \in cache_args.keys, value \in cache_args.values,
          ttl \in cache_args.ttls :
          LET mc == MaybeCleanup(memory_cache[1], cache_time)
              full == Len(mc._cache) >= mc._max_size
              evicted == IF full THEN OldestKey(mc._cache) ELSE None
              kept == IF evicted = None THEN mc._cache
                      ELSE DelKey(mc._cache, evicted[1])
              cache == Assign(kept, [ key |-> key, value |-> value,
                                      created_at |-> cache_time,
                                      expires_at |->
                                          ExpiresAt(ttl, cache_time) ])
          IN  /\ memory_cache' = Some([mc EXCEPT !._cache = cache])
              /\ cache_call' = Call("memory", "set", key, TRUE, evicted)
              /\ cache_written' =
                    { w \in Unwritten(key) : evicted = None
                                             \/ w.key # evicted[1] }
                    \cup { [ key |-> key, value |-> value,
                             expires_at |-> ExpiresAt(ttl, cache_time) ] }
              /\ cache_used' = Present(Touch(cache_used, key), cache)
    /\ UNCHANGED << sqlite_cache, cache_time, otherThanCache >>

\* MemoryCache.set, lines 79-103.
MemorySet ==
    /\ memory_cache # None
    /\ \E key \in cache_args.keys, value \in cache_args.values,
          ttl \in cache_args.ttls :
          LET mc == MaybeCleanup(memory_cache[1], cache_time)
              full == /\ Len(mc._cache) >= mc._max_size
                      /\ key \notin KeysOf(mc._cache)
              evicted == IF full THEN OldestKey(mc._cache) ELSE None
              kept == IF evicted = None THEN mc._cache
                      ELSE DelKey(mc._cache, evicted[1])
              cache == Assign(kept, [ key |-> key, value |-> value,
                                      created_at |-> cache_time,
                                      expires_at |->
                                          ExpiresAt(ttl, cache_time) ])
          IN  /\ memory_cache' = Some([mc EXCEPT !._cache = cache])
              /\ cache_call' = Call("memory", "set", key, TRUE, evicted)
              /\ cache_written' =
                    { w \in Unwritten(key) : evicted = None
                                             \/ w.key # evicted[1] }
                    \cup { [ key |-> key, value |-> value,
                             expires_at |-> ExpiresAt(ttl, cache_time) ] }
              /\ cache_used' = Present(Touch(cache_used, key), cache)
    /\ UNCHANGED << sqlite_cache, cache_time, otherThanCache >>

\* MemoryDelete that answers True whether or not the key is in the dict.
MemoryDelete_AlwaysTrue ==
    /\ memory_cache # None
    /\ \E key \in cache_args.keys :
          LET mc == memory_cache[1]
          IN  /\ memory_cache' =
                    Some([mc EXCEPT !._cache = DelKey(@, key)])
              /\ cache_call' = Call("memory", "delete", key, TRUE, None)
              /\ cache_written' = Unwritten(key)
              /\ cache_used' = Present(cache_used, DelKey(mc._cache, key))
    /\ UNCHANGED << sqlite_cache, cache_time, otherThanCache >>

\* MemoryCache.delete, lines 105-111.
MemoryDelete ==
    /\ memory_cache # None
    /\ \E key \in cache_args.keys :
          LET mc == memory_cache[1]
          IN  /\ memory_cache' =
                    Some([mc EXCEPT !._cache = DelKey(@, key)])
              /\ cache_call' =
                    Call("memory", "delete", key, key \in KeysOf(mc._cache),
                         None)
              /\ cache_written' = Unwritten(key)
              /\ cache_used' = Present(cache_used, DelKey(mc._cache, key))
    /\ UNCHANGED << sqlite_cache, cache_time, otherThanCache >>

\* MemoryCache.exists, lines 113-122.
MemoryExists ==
    /\ memory_cache # None
    /\ \E key \in cache_args.keys :
          LET mc == memory_cache[1]
              hit == /\ key \in KeysOf(mc._cache)
                     /\ ~IsExpired(mc._cache[IndexOf(mc._cache, key)].expires_at,
                                   cache_time)
              cache == IF hit THEN mc._cache ELSE DelKey(mc._cache, key)
          IN  /\ memory_cache' = Some([mc EXCEPT !._cache = cache])
              /\ cache_call' = Call("memory", "exists", key, hit, None)
              /\ cache_used' = Present(cache_used, cache)
    /\ UNCHANGED << sqlite_cache, cache_time, cache_written, otherThanCache >>

\* MemoryCache.clear, lines 124-129.
MemoryClear ==
    /\ memory_cache # None
    /\ memory_cache' = Some([memory_cache[1] EXCEPT !._cache = <<>>])
    /\ cache_call' = Call("memory", "clear", "", None, None)
    /\ cache_written' = {}
    /\ cache_used' = <<>>
    /\ UNCHANGED << sqlite_cache, cache_time, otherThanCache >>

\* The row of the table with the key: fetchone().
RowsOf(rows, key) == { r \in rows : r.key = key }

\* SQLiteCache.get, lines 76-104.
SQLiteGet ==
    /\ sqlite_cache # None
    /\ \E key \in cache_args.keys :
          LET rows == sqlite_cache[1].rows
              hit == \E r \in RowsOf(rows, key) :
                         ~IsExpired(r.expires_at, cache_time)
          IN  /\ sqlite_cache' =
                    Some([ _connection |-> TRUE,
                           rows |-> IF hit THEN rows
                                    ELSE rows \ RowsOf(rows, key) ])
              /\ cache_call' =
                    Call("sqlite", "get", key,
                         IF hit
                         THEN Some(PickleLoads(
                                  (CHOOSE r \in RowsOf(rows, key) : TRUE).value))
                         ELSE None,
                         None)
    /\ UNCHANGED << memory_cache, cache_time, cache_written, cache_used,
                    otherThanCache >>

\* SQLiteCache.set, lines 106-132: INSERT OR REPLACE. The created_at column
\* is written and never read; it is left out of the rows.
SQLiteSet ==
    /\ sqlite_cache # None
    /\ \E key \in cache_args.keys, value \in cache_args.values,
          ttl \in cache_args.ttls :
          LET rows == sqlite_cache[1].rows
          IN  /\ sqlite_cache' =
                    Some([ _connection |-> TRUE,
                           rows |-> (rows \ RowsOf(rows, key))
                                    \cup { [ key |-> key,
                                             value |-> PickleDumps(value),
                                             expires_at |->
                                                 ExpiresAt(ttl, cache_time) ] } ])
              /\ cache_call' = Call("sqlite", "set", key, TRUE, None)
              /\ cache_written' =
                    Unwritten(key)
                    \cup { [ key |-> key, value |-> value,
                             expires_at |-> ExpiresAt(ttl, cache_time) ] }
    /\ UNCHANGED << memory_cache, cache_time, cache_used, otherThanCache >>

\* SQLiteCache.delete, lines 134-145: rowcount > 0.
SQLiteDelete ==
    /\ sqlite_cache # None
    /\ \E key \in cache_args.keys :
          LET rows == sqlite_cache[1].rows
          IN  /\ sqlite_cache' =
                    Some([ _connection |-> TRUE,
                           rows |-> rows \ RowsOf(rows, key) ])
              /\ cache_call' =
                    Call("sqlite", "delete", key,
                         Cardinality(RowsOf(rows, key)) > 0, None)
              /\ cache_written' = Unwritten(key)
    /\ UNCHANGED << memory_cache, cache_time, cache_used, otherThanCache >>

\* SQLiteCache.exists, lines 147-170.
SQLiteExists ==
    /\ sqlite_cache # None
    /\ \E key \in cache_args.keys :
          LET rows == sqlite_cache[1].rows
              hit == \E r \in RowsOf(rows, key) :
                         ~IsExpired(r.expires_at, cache_time)
          IN  /\ sqlite_cache' =
                    Some([ _connection |-> TRUE,
                           rows |-> IF hit THEN rows
                                    ELSE rows \ RowsOf(rows, key) ])
              /\ cache_call' = Call("sqlite", "exists", key, hit, None)
    /\ UNCHANGED << memory_cache, cache_time, cache_written, cache_used,
                    otherThanCache >>

\* SQLiteCache.clear, lines 172-180.
SQLiteClear ==
    /\ sqlite_cache # None
    /\ sqlite_cache' = Some([ _connection |-> TRUE, rows |-> {} ])
    /\ cache_call' = Call("sqlite", "clear", "", None, None)
    /\ cache_written' = {}
    /\ UNCHANGED << memory_cache, cache_time, cache_used, otherThanCache >>

\* SQLiteCache.cleanup_expired, lines 220-234: expires_at < now.
SQLiteCleanupExpired ==
    /\ sqlite_cache # None
    /\ LET rows == sqlite_cache[1].rows
           gone == { r \in rows : /\ r.expires_at # None
                                  /\ r.expires_at[1] < cache_time }
       IN  /\ sqlite_cache' =
                 Some([ _connection |-> TRUE, rows |-> rows \ gone ])
           /\ cache_call' =
                 Call("sqlite", "cleanup_expired", "", Cardinality(gone),
                      None)
    /\ UNCHANGED << memory_cache, cache_time, cache_written, cache_used,
                    otherThanCache >>

NextCache ==
    \/ TimePasses
    \/ MemoryGet
    \/ MemorySet
    \/ MemoryDelete
    \/ MemoryExists
    \/ MemoryClear
    \/ SQLiteGet
    \/ SQLiteSet
    \/ SQLiteDelete
    \/ SQLiteExists
    \/ SQLiteClear
    \/ SQLiteCleanupExpired

\* A MemoryCache(max_size, cleanup_interval) made at time 0, lines 34-50.
NewMemoryCache ==
    Some([ _cache |-> <<>>, _max_size |-> CacheMaxSize,
           _cleanup_interval |-> CleanupInterval, _last_cleanup |-> 0 ])

\* A SQLiteCache(db_path), lines 22-41.
NewSQLiteCache == Some([ _connection |-> FALSE, rows |-> {} ])

\* One of the two caches, called with two keys, two values, with and
\* without ttl: the MemoryCache never holds more than max_size keys.
InitCache ==
    /\ \/ /\ memory_cache = NewMemoryCache
          /\ sqlite_cache = None
       \/ /\ memory_cache = None
          /\ sqlite_cache = NewSQLiteCache
    /\ cache_args = [ keys |-> { "key1", "key2" }, values |-> Values,
                      ttls |-> TTLs ]
    /\ cache_time = 0
    /\ cache_call = None
    /\ cache_written = {}
    /\ cache_used = <<>>

InitSpecCache ==
    /\ CoreAtRest
    /\ RetryAtRest
    /\ InitHealth
    /\ ManagerAtRest
    /\ ExecutorAtRest
    /\ TruncateAtRest
    /\ ThreatAtRest
    /\ AnalyzerAtRest
    /\ ExtractorAtRest
    /\ InitCache
    /\ MoreAtRest

SpecCache == InitSpecCache /\ [][NextCache]_vars

(***************************************************************************)
(* SpecEviction: a MemoryCache called with more keys than max_size         *)
(***************************************************************************)

\* A MemoryCache called with three keys, one value and no ttl.
InitEviction ==
    /\ memory_cache = NewMemoryCache
    /\ sqlite_cache = None
    /\ cache_args = [ keys |-> Keys, values |-> { "value1" },
                      ttls |-> { None } ]
    /\ cache_time = 0
    /\ cache_call = None
    /\ cache_written = {}
    /\ cache_used = <<>>

NextEviction ==
    \/ TimePasses
    \/ MemoryGet
    \/ MemorySet
    \/ MemoryDelete
    \/ MemoryExists
    \/ MemoryClear

InitSpecEviction ==
    /\ CoreAtRest
    /\ RetryAtRest
    /\ InitHealth
    /\ ManagerAtRest
    /\ ExecutorAtRest
    /\ TruncateAtRest
    /\ ThreatAtRest
    /\ AnalyzerAtRest
    /\ ExtractorAtRest
    /\ InitEviction
    /\ MoreAtRest

SpecEviction == InitSpecEviction /\ [][NextEviction]_vars

(***************************************************************************)
(* Investigation: construction (core/entities/investigation.py)            *)
(***************************************************************************)

\* Largest value of the clock read by datetime.utcnow() in SpecCreate.
MaxCreateTime == 2

\* The queries and model names investigate is called with; "gpt-4.1" is the
\* default of the model field.
Queries == { "query1", "query2" }
Models == { "gpt-4.1", "model2" }

\* The values of str(uuid4()).
Uuids == { "uuid1", "uuid2" }

\* The tags of add_tag and remove_tag.
Tags == { "tag1", "tag2" }

otherThanCreate ==
    << coreVars, adapterVars, analysisVars, cacheVars, limiterVars,
       filterVars, concurrentVars, levelVars, countingVars >>

\* The dataclass defaults of lines 49-74 for Investigation(original_query=q,
\* model=m); created_at and updated_at are two reads of the clock.
NewRecord(q, m, u, t1, t2) ==
    [ original_query |-> q,
      model |-> m,
      id |-> Some(u),
      refined_query |-> None,
      status |-> PENDING,
      created_at |-> Some(t1),
      updated_at |-> Some(t2),
      completed_at |-> None,
      search_results_count |-> 0,
      filtered_results_count |-> 0,
      scraped_count |-> 0,
      entities_extracted |-> {},
      summary |-> None,
      threat_score |-> None,
      tags |-> <<>>,
      notes |-> None,
      metadata |-> {},
      errors |-> <<>> ]

\* datetime.utcnow() moves on.
CreateClockTicks ==
    /\ create_clock < MaxCreateTime
    /\ create_clock' = create_clock + 1
    /\ UNCHANGED << new_investigation, otherThanCreate >>

\* As NewInvestigation, but the object is stamped as completed on
\* construction.
NewInvestigation_Stamped ==
    /\ new_investigation = None
    /\ \E q \in Queries, m \in Models, u \in Uuids,
          t \in { create_clock, create_clock + 1 } :
          /\ t <= MaxCreateTime
          /\ new_investigation' =
                 Some([ NewRecord(q, m, u, create_clock, t) EXCEPT
                          !.completed_at = Some(t) ])
          /\ create_clock' = t
    /\ UNCHANGED otherThanCreate

\* investigate, lines 106-109: Investigation(original_query=query,
\* model=model).
NewInvestigation ==
    /\ new_investigation = None
    /\ \E q \in Queries, m \in Models, u \in Uuids,
          t \in { create_clock, create_clock + 1 } :
          /\ t <= MaxCreateTime
          /\ new_investigation' = Some(NewRecord(q, m, u, create_clock, t))
          /\ create_clock' = t
    /\ UNCHANGED otherThanCreate

\* add_tag, lines 92-96.
AddTag ==
    /\ new_investigation # None
    /\ \E tag \in Tags :
          LET inv == new_investigation[1] IN
          IF \E i \in 1..Len(inv.tags) : inv.tags[i] = tag
          THEN UNCHANGED new_investigation
          ELSE new_investigation' =
                   Some([ inv EXCEPT !.tags = Append(inv.tags, tag),
                                     !.updated_at = Some(create_clock) ])
    /\ UNCHANGED << create_clock, otherThanCreate >>

\* remove_tag, lines 98-102.
RemoveTag ==
    /\ new_investigation # None
    /\ \E tag \in Tags :
          LET inv == new_investigation[1] IN
          IF \E i \in 1..Len(inv.tags) : inv.tags[i] = tag
          THEN new_investigation' =
                   Some([ inv EXCEPT
                            !.tags = SelectSeq(inv.tags,
                                               LAMBDA x : x # tag),
                            !.updated_at = Some(create_clock) ])
          ELSE UNCHANGED new_investigation
    /\ UNCHANGED << create_clock, otherThanCreate >>

NextCreate ==
    \/ CreateClockTicks
    \/ NewInvestigation
    \/ AddTag
    \/ RemoveTag

InitSpecCreate ==
    /\ CoreAtRest
    /\ RetryAtRest
    /\ InitHealth
    /\ ManagerAtRest
    /\ ExecutorAtRest
    /\ TruncateAtRest
    /\ LaterAtRest

SpecCreate == InitSpecCreate /\ [][NextCreate]_vars

(***************************************************************************)
(* SpecLimiter: RateLimitMiddleware.dispatch under any sequence of         *)
(* requests and the passage of time (presentation/api/middleware.py)       *)
(***************************************************************************)

\* Largest requests_per_minute the middleware is constructed with.
MaxRpm == 2

\* Number of requests dispatched.
MaxRequests == 5

\* The clock of time.time() moves in steps of TickSeconds seconds, up to
\* MaxLimiterTicks steps.
TickSeconds == 30
MaxLimiterTicks == 3

\* The window length of line 89, in seconds.
Window == 60

\* request.client.host, or "unknown" for a request without client.
Clients == { "10.0.0.1", "unknown" }

otherThanLimiter ==
    << coreVars, adapterVars, analysisVars, cacheVars, createVars,
       filterVars, concurrentVars, levelVars, countingVars >>

\* __init__, lines 72-76.
NewRateLimitMiddleware ==
    /\ limiter = None
    /\ \E rpm \in 1..MaxRpm :
          limiter' = Some([ requests_per_minute |-> rpm,
                            _request_counts |-> <<>> ])
    /\ UNCHANGED << limiter_time, limiter_log, otherThanLimiter >>

\* time.time() moves on.
LimiterTimePasses ==
    /\ limiter_time < MaxLimiterTicks * TickSeconds
    /\ limiter_time' = limiter_time + TickSeconds
    /\ UNCHANGED << limiter, limiter_log, otherThanLimiter >>

\* self._request_counts[client_ip] = entry
SetCount(client_ip, entry) ==
    LET counts == limiter[1]._request_counts
    IN Some([ limiter[1] EXCEPT !._request_counts =
                [ c \in DOMAIN counts \cup {client_ip} |->
                    IF c = client_ip THEN entry ELSE counts[c] ] ])

\* What the dispatch of one request did: whether call_next was awaited, the
\* status of the response, and the entry of the client before and after.
Dispatched(client_ip, forwarded, status_code, before, after) ==
    Append(limiter_log,
           [ client |-> client_ip, at |-> limiter_time,
             forwarded |-> forwarded, status_code |-> status_code,
             before |-> before, after |-> after ])

CanDispatch ==
    /\ limiter # None
    /\ Len(limiter_log) < MaxRequests

\* Lines 83-84 and 109-115: no entry for the client; the request is counted
\* as the first of a window that starts now, and forwarded.
DispatchFirst ==
    /\ CanDispatch
    /\ \E client_ip \in Clients :
          /\ client_ip \notin DOMAIN limiter[1]._request_counts
          /\ limiter' = SetCount(client_ip, << 1, limiter_time >>)
          /\ limiter_log' = Dispatched(client_ip, TRUE, 200, None,
                                       Some(<< 1, limiter_time >>))
    /\ UNCHANGED << limiter_time, otherThanLimiter >>

\* Lines 86-90 and 109-115: more than 60 seconds after window_start; a new
\* window starts with count 1 and the request is forwarded.
DispatchNewWindow ==
    /\ CanDispatch
    /\ \E client_ip \in DOMAIN limiter[1]._request_counts :
          LET entry == limiter[1]._request_counts[client_ip]
              window_start == entry[2]
          IN /\ limiter_time - window_start > Window
             /\ limiter' = SetCount(client_ip, << 1, limiter_time >>)
             /\ limiter_log' = Dispatched(client_ip, TRUE, 200, Some(entry),
                                          Some(<< 1, limiter_time >>))
    /\ UNCHANGED << limiter_time, otherThanLimiter >>

\* Lines 93-103: within the window with count >= requests_per_minute; 429 is
\* returned, call_next is not awaited and the entry is not written.
DispatchLimited ==
    /\ CanDispatch
    /\ \E client_ip \in DOMAIN limiter[1]._request_counts :
          LET entry == limiter[1]._request_counts[client_ip]
              count == entry[1]
              window_start == entry[2]
          IN /\ ~ (limiter_time - window_start > Window)
             /\ count >= limiter[1].requests_per_minute
             /\ limiter_log' = Dispatched(client_ip, FALSE, 429, Some(entry),
                                          Some(entry))
    /\ UNCHANGED << limiter, limiter_time, otherThanLimiter >>

\* As DispatchCounted, but the count is not compared with the limit.
DispatchCounted_Unchecked ==
    /\ CanDispatch
    /\ \E client_ip \in DOMAIN limiter[1]._request_counts :
          LET entry == limiter[1]._request_counts[client_ip]
              count == entry[1]
              window_start == entry[2]
          IN /\ ~ (limiter_time - window_start > Window)
             /\ limiter' = SetCount(client_ip, << count + 1, window_start >>)
             /\ limiter_log' = Dispatched(client_ip, TRUE, 200, Some(entry),
                                          Some(<< count + 1, window_start >>))
    /\ UNCHANGED << limiter_time, otherThanLimiter >>

\* Lines 106-115: within the window and below the limit; the count is
\* incremented and the request is forwarded.
DispatchCounted ==
    /\ CanDispatch
    /\ \E client_ip \in DOMAIN limiter[1]._request_counts :
          LET entry == limiter[1]._request_counts[client_ip]
              count == entry[1]
              window_start == entry[2]
          IN /\ ~ (limiter_time - window_start > Window)
             /\ ~ (count >= limiter[1].requests_per_minute)
             /\ limiter' = SetCount(client_ip, << count + 1, window_start >>)
             /\ limiter_log' = Dispatched(client_ip, TRUE, 200, Some(entry),
                                          Some(<< count + 1, window_start >>))
    /\ UNCHANGED << limiter_time, otherThanLimiter >>

NextLimiter ==
    \/ NewRateLimitMiddleware
    \/ LimiterTimePasses
    \/ DispatchFirst
    \/ DispatchNewWindow
    \/ DispatchLimited
    \/ DispatchCounted

InitSpecLimiter ==
    /\ CoreAtRest
    /\ RetryAtRest
    /\ InitHealth
    /\ ManagerAtRest
    /\ ExecutorAtRest
    /\ TruncateAtRest
    /\ LaterAtRest

SpecLimiter == InitSpecLimiter /\ [][NextLimiter]_vars

(***************************************************************************)
(* SpecFilter: stages 3 and 4 of investigate (ResultFilter.filter and      *)
(* _scrape_content) with a max_results small enough to cut the selection   *)
(***************************************************************************)

\* Largest number of search results handed to the filter.
MaxFilterInput == 3

\* Largest FilterConfig.max_results explored.
MaxFilterCap == 2

\* Search results as _search_all_engines returns them: the links are not
\* empty and differ.
FoundResults ==
    << [link |-> "x.onion/a", title |-> "t1"],
       [link |-> "x.onion/b", title |-> ""],
       [link |-> "x.onion/c", title |-> "t2"],
       [link |-> "x.onion/d", title |-> "t1"],
       [link |-> "x.onion/e", title |-> ""] >>

otherThanFilter ==
    << coreVars, adapterVars, analysisVars, cacheVars, createVars,
       limiterVars, concurrentVars, levelVars, countingVars >>

\* _parse_indices (lines 142-159) for a filter built with max_results.
RECURSIVE ParseFromWith(_, _, _, _)
ParseFromWith(numbers, max_index, max_results, indices) ==
    IF numbers = <<>> THEN indices
    ELSE LET num == Head(numbers)
         IN IF 1 <= num /\ num <= max_index /\ num \notin Elements(indices)
            THEN LET added == Append(indices, num)
                 IN IF Len(added) >= max_results
                    THEN added
                    ELSE ParseFromWith(Tail(numbers), max_index, max_results,
                                       added)
            ELSE ParseFromWith(Tail(numbers), max_index, max_results, indices)

\* Lines 95-97 for a filter built with max_results.
FilterFallbackWith(results, max_results) ==
    SubSeq(results, 1, Min(max_results, Len(results)))

\* Lines 120-121: the search stage has returned its unique results and the
\* counter is set; the filter was built with max_results.
FilterRunStarts ==
    /\ filter_run = None
    /\ \E n \in 0..MaxFilterInput, max_results \in 1..MaxFilterCap :
          filter_run' =
              Some([ search_results |-> SubSeq(FoundResults, 1, n),
                     max_results |-> max_results,
                     answer |-> None,
                     filtered_results |-> <<>>,
                     scraped_content |-> <<>>,
                     search_results_count |-> n,
                     filtered_results_count |-> 0,
                     scraped_count |-> 0,
                     pc |-> "l126" ])
    /\ UNCHANGED otherThanFilter

\* Lines 126-130 and filter lines 66-67: no result, no LLM call.
FilterRunEmpty ==
    /\ filter_run # None
    /\ filter_run[1].pc = "l126"
    /\ filter_run[1].search_results = <<>>
    /\ filter_run' = Some([ filter_run[1] EXCEPT
                              !.filtered_results = <<>>,
                              !.filtered_results_count = 0,
                              !.pc = "l135" ])
    /\ UNCHANGED otherThanFilter

\* As FilterRunAnswers, but every number found in the answer is taken as an
\* index of the selection.
FilterRunAnswers_Unparsed ==
    /\ filter_run # None
    /\ filter_run[1].pc = "l126"
    /\ filter_run[1].search_results # <<>>
    /\ \E numbers \in LLMNumbers(Len(filter_run[1].search_results)) :
          LET run == filter_run[1]
              kept == SelectResults(run.search_results, numbers)
          IN filter_run' = Some([ run EXCEPT
                                    !.answer = Some(numbers),
                                    !.filtered_results = kept,
                                    !.filtered_results_count = Len(kept),
                                    !.pc = "l135" ])
    /\ UNCHANGED otherThanFilter

\* Lines 126-130 and filter lines 78-93: the LLM answers; the numbers of the
\* answer are parsed and the results they name are returned.
FilterRunAnswers ==
    /\ filter_run # None
    /\ filter_run[1].pc = "l126"
    /\ filter_run[1].search_results # <<>>
    /\ \E numbers \in LLMNumbers(Len(filter_run[1].search_results)) :
          LET run == filter_run[1]
              indices == ParseFromWith(numbers, Len(run.search_results),
                                       run.max_results, <<>>)
              kept == SelectResults(run.search_results, indices)
          IN filter_run' = Some([ run EXCEPT
                                    !.answer = Some(numbers),
                                    !.filtered_results = kept,
                                    !.filtered_results_count = Len(kept),
                                    !.pc = "l135" ])
    /\ UNCHANGED otherThanFilter

\* Lines 126-130 and filter lines 95-97: the LLM raises; the first
\* max_results results are returned.
FilterRunLLMRaises ==
    /\ filter_run # None
    /\ filter_run[1].pc = "l126"
    /\ filter_run[1].search_results # <<>>
    /\ LET run == filter_run[1]
           kept == FilterFallbackWith(run.search_results, run.max_results)
       IN filter_run' = Some([ run EXCEPT
                                 !.filtered_results = kept,
                                 !.filtered_results_count = Len(kept),
                                 !.pc = "l135" ])
    /\ UNCHANGED otherThanFilter

\* scraped after the futures of the results 1..k were yielded in this order.
RECURSIVE ScrapedAfter(_, _, _)
ScrapedAfter(results, fetches, k) ==
    IF k = 0 THEN <<>>
    ELSE StoreScraped(ScrapedAfter(results, fetches, k - 1),
                      ScrapeSingle(results[k], fetches[k]))

\* Lines 135-136 and _scrape_content: every filtered result is fetched and
\* the pages with content are stored under their URL.
FilterRunScrapes ==
    /\ filter_run # None
    /\ filter_run[1].pc = "l135"
    /\ \E fetches \in [1..Len(filter_run[1].filtered_results) -> Fetches] :
          LET run == filter_run[1]
              scraped_map == ScrapedAfter(run.filtered_results, fetches,
                                          Len(run.filtered_results))
          IN filter_run' = Some([ run EXCEPT
                                    !.scraped_content = scraped_map,
                                    !.scraped_count =
                                        Cardinality(DOMAIN scraped_map),
                                    !.pc = "l139" ])
    /\ UNCHANGED otherThanFilter

NextFilter ==
    \/ FilterRunStarts
    \/ FilterRunEmpty
    \/ FilterRunAnswers
    \/ FilterRunLLMRaises
    \/ FilterRunScrapes

InitSpecFilter ==
    /\ CoreAtRest
    /\ RetryAtRest
    /\ InitHealth
    /\ ManagerAtRest
    /\ ExecutorAtRest
    /\ TruncateAtRest
    /\ LaterAtRest

SpecFilter == InitSpecFilter /\ [][NextFilter]_vars

(***************************************************************************)
(* SpecConcurrent: two extract calls running at once on the                *)
(* EntityExtractor of one InvestigationService                             *)
(* (investigation_service.py line 83, entity_extractor.py lines 161-252)   *)
(***************************************************************************)

\* Number of words of a text handed to a concurrent extract call.
MaxConcurrentWords == 2

\* The words of these texts: an MD5 string, and a string that is both a
\* legacy Bitcoin address and an MD5 string.
ConcurrentWords ==
    { w \in Words : w.chars \in { "a0b1(32)", "1a2b(32)" } }

ConcurrentTexts ==
    UNION { [1..n -> ConcurrentWords] : n \in 0..MaxConcurrentWords }

otherThanConcurrent ==
    << coreVars, adapterVars, analysisVars, cacheVars, createVars,
       limiterVars, filterVars, levelVars, countingVars >>

\* What extract returns for text when no other call runs on the instance.
ExtractAlone(text) ==
    AddCandidates([ _seen_values |-> {}, entities |-> <<>> ],
                  Candidates(text)).entities

\* Two threads call extract on the same instance (line 181: each has its own
\* result).
ConcurrentCallsStart ==
    /\ extract_calls = <<>>
    /\ \E text1, text2 \in ConcurrentTexts :
          extract_calls' =
              [ i \in 1..2 |->
                  [ text |-> IF i = 1 THEN text1 ELSE text2,
                    pending |-> <<>>,
                    entities |-> <<>>,
                    pc |-> "l182" ] ]
    /\ UNCHANGED << shared_seen, otherThanConcurrent >>

\* Line 182: self._seen_values.clear()
CallClearsSeen(i) ==
    /\ extract_calls[i].pc = "l182"
    /\ shared_seen' = {}
    /\ extract_calls' =
          [ extract_calls EXCEPT
              ![i].pending = Candidates(extract_calls[i].text),
              ![i].pc = "l184" ]
    /\ UNCHANGED otherThanConcurrent

\* Lines 184-212, one match: _should_add (lines 245-252) looks value.lower()
\* up in self._seen_values and adds it; result.add_entity follows when it
\* was not there.
CallShouldAdd(i) ==
    /\ extract_calls[i].pc = "l184"
    /\ extract_calls[i].pending # <<>>
    /\ LET c == Head(extract_calls[i].pending)
       IN  IF WordLower(c.key) \in shared_seen
           THEN /\ extract_calls' =
                       [ extract_calls EXCEPT ![i].pending = Tail(@) ]
                /\ UNCHANGED shared_seen
           ELSE /\ shared_seen' = shared_seen \cup { WordLower(c.key) }
                /\ extract_calls' =
                       [ extract_calls EXCEPT
                           ![i].pending = Tail(@),
                           ![i].entities =
                               Append(@, [ entity_type |-> c.entity_type,
                                           value |-> c.value,
                                           hash_type |-> c.hash_type,
                                           currency |-> c.currency ]) ]
    /\ UNCHANGED otherThanConcurrent

\* Line 214: return result
CallReturns(i) ==
    /\ extract_calls[i].pc = "l184"
    /\ extract_calls[i].pending = <<>>
    /\ extract_calls' = [ extract_calls EXCEPT ![i].pc = "returned" ]
    /\ UNCHANGED << shared_seen, otherThanConcurrent >>

NextConcurrent ==
    \/ ConcurrentCallsStart
    \/ \E i \in DOMAIN extract_calls : CallClearsSeen(i)
    \/ \E i \in DOMAIN extract_calls : CallShouldAdd(i)
    \/ \E i \in DOMAIN extract_calls : CallReturns(i)

InitSpecConcurrent ==
    /\ CoreAtRest
    /\ RetryAtRest
    /\ InitHealth
    /\ ManagerAtRest
    /\ ExecutorAtRest
    /\ TruncateAtRest
    /\ LaterAtRest

SpecConcurrent == InitSpecConcurrent /\ [][NextConcurrent]_vars

(***************************************************************************)
(* SpecAnalysis: one ThreatAnalyzer.analyze call, from the extracted       *)
(* entities to the threat score (core/services/threat_analyzer.py)         *)
(***************************************************************************)

\* Length of the entity list of one analyze call.
MaxAnalyzed == 2

\* ExtractedEntity.confidence, in percent: below the floor of 0.5, and the
\* default 1.0.
AnalyzedConfidences == { 40, 100 }

\* What entity.context.lower() holds of the keyword sets of lines 44-55:
\* a HIGH_THREAT keyword, a MEDIUM_THREAT keyword, both, or neither (also
\* the case of a description that is None).
Contexts == { "leaked", "login", "leaked login", "" }

HasHighKeyword(description) == description \in { "leaked", "leaked login" }

HasMediumKeyword(description) == description \in { "login", "leaked login" }

\* The entity lists of one call; an email gives an IOC, a phone does not.
AnalyzedEntities ==
    UNION { [ 1..n ->
                [ entity_type : { "email", "phone" },
                  hash_type : { "" },
                  confidence : AnalyzedConfidences,
                  context : Contexts ] ] : n \in 0..MaxAnalyzed }

otherThanAnalysis ==
    << coreVars, adapterVars, analysisVars, cacheVars, createVars,
       limiterVars, filterVars, concurrentVars, countingVars >>

\* _generate_iocs, lines 119-147, over the whole list: threat_level is the
\* default of the IOC dataclass, description the context of the entity.
RECURSIVE GeneratedIocs(_, _)
GeneratedIocs(entities, min_confidence) ==
    IF entities = <<>> THEN <<>>
    ELSE LET entity == Head(entities)
             rest == GeneratedIocs(Tail(entities), min_confidence)
         IN IF entity.confidence < min_confidence
               \/ IocTypeOf(entity) = None
            THEN rest
            ELSE << [ ioc_type |-> IocTypeOf(entity)[1],
                      confidence |-> entity.confidence,
                      threat_level |-> ThreatLevel.UNKNOWN,
                      description |-> entity.context ] >> \o rest

\* As ContextThreatLevel, but a HIGH_THREAT keyword makes the IOC critical.
ContextThreatLevel_Critical(description) ==
    IF HasHighKeyword(description) THEN ThreatLevel.CRITICAL
    ELSE IF HasMediumKeyword(description) THEN ThreatLevel.MEDIUM
    ELSE ThreatLevel.LOW

\* _analyze_threat_level, lines 184-190: the level of one IOC.
ContextThreatLevel(description) ==
    IF HasHighKeyword(description) THEN ThreatLevel.HIGH
    ELSE IF HasMediumKeyword(description) THEN ThreatLevel.MEDIUM
    ELSE ThreatLevel.LOW

\* Lines 89-98: a new ThreatIntelligence; the entities are extracted.
AnalyzeStarts ==
    /\ analysis = None
    /\ \E generate_iocs, calculate_threat_score \in BOOLEAN,
          entities \in AnalyzedEntities :
          analysis' =
              Some([ config |-> [ generate_iocs |-> generate_iocs,
                                  calculate_threat_score |->
                                      calculate_threat_score,
                                  min_confidence |-> 50 ],
                     all_entities |-> entities,
                     iocs |-> <<>>,
                     threat_score |-> 0,
                     overall_threat_level |-> ThreatLevel.UNKNOWN,
                     pc |-> "l100" ])
    /\ UNCHANGED otherThanAnalysis

\* Lines 100-101: if config.generate_iocs, _generate_iocs.
AnalyzeGeneratesIocs ==
    /\ analysis # None
    /\ analysis[1].pc = "l100"
    /\ analysis' =
          Some([ analysis[1] EXCEPT
                   !.iocs = IF analysis[1].config.generate_iocs
                            THEN GeneratedIocs(analysis[1].all_entities,
                                               analysis[1].config.min_confidence)
                            ELSE @,
                   !.pc = "l105" ])
    /\ UNCHANGED otherThanAnalysis

\* Lines 104-105: _analyze_threat_level sets the level of every IOC.
AnalyzeThreatLevel ==
    /\ analysis # None
    /\ analysis[1].pc = "l105"
    /\ LET iocs == analysis[1].iocs
       IN analysis' =
              Some([ analysis[1] EXCEPT
                       !.iocs = [ i \in 1..Len(iocs) |->
                                    [ ioc_type |-> iocs[i].ioc_type,
                                      confidence |-> iocs[i].confidence,
                                      threat_level |->
                                          ContextThreatLevel(
                                              iocs[i].description),
                                      description |-> iocs[i].description ] ],
                       !.pc = "l108" ])
    /\ UNCHANGED otherThanAnalysis

\* Lines 108-111: if config.calculate_threat_score, calculate_threat_score
\* (which assigns nothing when there is no IOC); return threat_intel.
AnalyzeCalculatesScore ==
    /\ analysis # None
    /\ analysis[1].pc = "l108"
    /\ LET run == analysis[1]
           assigns == run.config.calculate_threat_score /\ run.iocs # <<>>
       IN analysis' =
              Some([ run EXCEPT
                       !.threat_score =
                           IF assigns THEN ScoreOf(run.iocs) ELSE @,
                       !.overall_threat_level =
                           IF assigns THEN LevelOf(ScoreOf(run.iocs)) ELSE @,
                       !.pc = "l111" ])
    /\ UNCHANGED otherThanAnalysis

NextAnalysis ==
    \/ AnalyzeStarts
    \/ AnalyzeGeneratesIocs
    \/ AnalyzeThreatLevel
    \/ AnalyzeCalculatesScore

InitSpecAnalysis ==
    /\ CoreAtRest
    /\ RetryAtRest
    /\ InitHealth
    /\ ManagerAtRest
    /\ ExecutorAtRest
    /\ TruncateAtRest
    /\ LaterAtRest

SpecAnalysis == InitSpecAnalysis /\ [][NextAnalysis]_vars

(***************************************************************************)
(* SpecCounts: ExtractionResult.add_entity as extract and                  *)
(* extract_from_multiple call it (core/services/entity_extractor.py)       *)
(***************************************************************************)

\* Number of texts (URL -> content entries) of one extract_from_multiple
\* call.
MaxTexts == 2

\* EntityType values of the entities that texts of Words give.
CountedTypes == { "crypto_wallet", "hash" }

otherThanCounts ==
    << coreVars, adapterVars, analysisVars, cacheVars, createVars,
       limiterVars, filterVars, concurrentVars, levelVars >>

\* ExtractionResult(), lines 43-49.
NewExtractionResult == [ entities |-> <<>>, entity_counts |-> <<>> ]

\* dict.get(key, 0)
GetCount(entity_counts, key) ==
    IF key \in DOMAIN entity_counts THEN entity_counts[key] ELSE 0

\* As AddEntity, but the count of the type is set to 1.
AddEntity_CountsOne(result, entity) ==
    [ entities |-> Append(result.entities, entity),
      entity_counts |->
          [ t \in DOMAIN result.entity_counts \cup { entity.entity_type } |->
              IF t = entity.entity_type THEN 1
              ELSE result.entity_counts[t] ] ]

\* add_entity, lines 51-55.
AddEntity(result, entity) ==
    [ entities |-> Append(result.entities, entity),
      entity_counts |->
          [ t \in DOMAIN result.entity_counts \cup { entity.entity_type } |->
              IF t = entity.entity_type
              THEN GetCount(result.entity_counts, t) + 1
              ELSE result.entity_counts[t] ] ]

\* extract, lines 181-214: every entity that passes _should_add goes into
\* the result through add_entity.
RECURSIVE AddAll(_, _)
AddAll(result, entities) ==
    IF entities = <<>> THEN result
    ELSE AddAll(AddEntity(result, Head(entities)), Tail(entities))

ExtractResult(text) == AddAll(NewExtractionResult, ExtractAlone(text))

\* total_count, lines 61-64.
TotalCount(result) == Len(result.entities)

\* Line 229: combined = ExtractionResult(); texts is the URL -> content dict
\* in its order.
MultipleStarts ==
    /\ extraction = None
    /\ \E n \in 0..MaxTexts :
          \E texts \in [1..n -> ConcurrentTexts] :
              extraction' = Some([ texts |-> texts,
                                   index |-> 1,
                                   result |-> NewExtractionResult,
                                   pending |-> <<>>,
                                   combined |-> NewExtractionResult,
                                   pc |-> "l231" ])
    /\ UNCHANGED otherThanCounts

\* Lines 231-232: result = self.extract(text, source_url=url) for the next
\* text.
MultipleExtractsText ==
    /\ extraction # None
    /\ extraction[1].pc = "l231"
    /\ extraction[1].index <= Len(extraction[1].texts)
    /\ LET run == extraction[1]
           result == ExtractResult(run.texts[run.index])
       IN extraction' = Some([ run EXCEPT
                                 !.result = result,
                                 !.pending = result.entities,
                                 !.index = @ + 1,
                                 !.pc = "l233" ])
    /\ UNCHANGED otherThanCounts

\* Lines 233-234: combined.add_entity(entity) for the next entity of the
\* result.
MultipleAddsEntity ==
    /\ extraction # None
    /\ extraction[1].pc = "l233"
    /\ extraction[1].pending # <<>>
    /\ extraction' =
          Some([ extraction[1] EXCEPT
                   !.combined = AddEntity(@, Head(extraction[1].pending)),
                   !.pending = Tail(@) ])
    /\ UNCHANGED otherThanCounts

\* Line 233, the result has no further entity: on to the next text.
MultipleNextText ==
    /\ extraction # None
    /\ extraction[1].pc = "l233"
    /\ extraction[1].pending = <<>>
    /\ extraction' = Some([ extraction[1] EXCEPT !.pc = "l231" ])
    /\ UNCHANGED otherThanCounts

\* Line 236: return combined
MultipleReturns ==
    /\ extraction # None
    /\ extraction[1].pc = "l231"
    /\ extraction[1].index > Len(extraction[1].texts)
    /\ extraction' = Some([ extraction[1] EXCEPT !.pc = "l236" ])
    /\ UNCHANGED otherThanCounts

NextCounts ==
    \/ MultipleStarts
    \/ MultipleExtractsText
    \/ MultipleAddsEntity
    \/ MultipleNextText
    \/ MultipleReturns

InitSpecCounts ==
    /\ CoreAtRest
    /\ RetryAtRest
    /\ InitHealth
    /\ ManagerAtRest
    /\ ExecutorAtRest
    /\ TruncateAtRest
    /\ LaterAtRest

SpecCounts == InitSpecCounts /\ [][NextCounts]_vars

(***************************************************************************)
(* Properties                                                              *)
(***************************************************************************)

ExceptLines == {"l173", "l177", "l178", "raised"}

\* C1: FAILED and COMPLETED are absorbing: once the status is COMPLETED or
\* FAILED, no later step of investigate changes it.
C1_TerminalAbsorbing ==
    [][(status \in {COMPLETED, FAILED}) => (status' = status)]_vars

\* C2: the first status after PENDING is REFINING_QUERY in every run of
\* investigate; no other status, FAILED included, directly follows PENDING.
C2_PendingThenRefining ==
    [][(status = PENDING /\ status' # PENDING) => (status' = REFINING_QUERY)]_vars

\* C3: completed_at is non-null if and only if status is one of COMPLETED,
\* FAILED, CANCELLED, after any sequence of update_status calls.
C3_CompletedAtIffTerminal ==
    (completed_at # None) <=> ~IsActive

\* The status sequence of a successful run under the run's configuration.
ForwardSequence ==
    << PENDING, REFINING_QUERY, SEARCHING, FILTERING, SCRAPING >>
    \o (IF config.enable_entity_extraction THEN << EXTRACTING >> ELSE <<>>)
    \o (IF config.enable_threat_analysis THEN << ANALYZING >> ELSE <<>>)
    \o << COMPLETED >>

StrictlyForward(log) ==
    \A i, j \in DOMAIN log : i < j => StatusOrder(log[i]) < StatusOrder(log[j])

\* C4: on success the status sequence of a run is strictly forward in the
\* order PENDING, REFINING_QUERY, SEARCHING, FILTERING, SCRAPING, EXTRACTING,
\* ANALYZING, COMPLETED: while no exception has been raised no status is
\* entered twice and none is entered after a later one, and a run that
\* returns went through every status of the order, skipping EXTRACTING and
\* ANALYZING exactly when the stage is disabled by configuration.
C4_StrictlyForwardOnSuccess ==
    /\ raised_at = NULL => StrictlyForward(status_log)
    /\ pc = "returned" => status_log = ForwardSequence

\* C4 witness: a run returned with entity extraction disabled and threat
\* analysis enabled, having skipped EXTRACTING only.
C4_Witness ==
    /\ pc = "returned"
    /\ ~config.enable_entity_extraction
    /\ config.enable_threat_analysis
    /\ Len(status_log) = 7

\* C5: an error raised while a stage runs appends one entry whose stage is
\* the status the investigation had when the error was raised, then moves
\* the investigation directly to FAILED, and only then re-raises: the entry
\* is there before the status becomes FAILED.
C5_ErrorRecordedThenFailed ==
    /\ raised_at # NULL => pc \in ExceptLines
    /\ pc = "l173" => status = raised_at /\ errors = <<>>
    /\ pc = "l177" =>
          /\ status = raised_at
          /\ Len(errors) = 1
          /\ errors[1].stage = raised_at
    /\ pc \in {"l178", "raised"} =>
          /\ status = FAILED
          /\ Len(errors) = 1
          /\ errors[1].stage = raised_at
          /\ Len(status_log) >= 2
          /\ status_log[Len(status_log) - 1] = raised_at
    /\ status = FAILED => errors # <<>>

\* C5 witness: the error was raised in SEARCHING and re-raised to the caller.
C5_Witness ==
    /\ pc = "raised"
    /\ raised_at = SEARCHING
    /\ status = FAILED
    /\ errors[1].stage = SEARCHING

AllProvidersFailed ==
    /\ DOMAIN response # {}
    /\ \A e \in DOMAIN response : response[e].kind # "ok"

\* C7: if all search providers fail, the SEARCHING stage raises a fatal
\* error: _search_all_engines does not return to the filtering stage, control
\* goes to the except clause.
C7_AllProvidersFailedIsFatal ==
    [][(pc = "l221" /\ AllProvidersFailed) => (pc' \in {"l221", "l173"})]_vars

\* The results of the engines 1..n that succeeded, in the order of the engines.
RECURSIVE InEngineOrder(_)
InEngineOrder(n) ==
    IF n = 0 THEN <<>> ELSE CollectResult(InEngineOrder(n - 1), response[n])

SucceededFetches == { i \in DOMAIN fetch : fetch[i].outcome = "ok" }

\* C8: a failure of one provider or of one fetch never changes the status
\* and never aborts the stage, and when at least one task succeeds the stage
\* proceeds with the results of exactly the providers or pages that succeeded.
C8_ExactlyTheSucceeded ==
    /\ (pc = "l221" /\ ~AllProvidersFailed) =>
          /\ status = SEARCHING
          /\ Elements(all_results) =
                Elements(InEngineOrder(config.search_engines))
          /\ Len(all_results) = Len(InEngineOrder(config.search_engines))
    /\ (pc = "l283" /\ SucceededFetches # {}) =>
          /\ status = SCRAPING
          /\ DOMAIN scraped =
                { filtered_results[i].link : i \in SucceededFetches }

\* C9: a run that ends COMPLETED after k partial failures (single-provider
\* or single-URL failures) has k entries in errors.
C9_PartialErrorsRecorded ==
    (pc = "returned" /\ status = COMPLETED) => Len(errors) = partial_failures

\* C10: the merged, deduplicated search result does not depend on the order
\* in which the providers complete: it is the list obtained by merging the
\* responses in the order of the providers, so that a URL returned by two
\* providers carries the first provider's title.
C10_MergeIndependentOfCompletionOrder ==
    pc = "l221" =>
        unique_results = DedupByLink(InEngineOrder(config.search_engines))

\* The links of a list of results.
Links(results) == { results[i].link : i \in DOMAIN results }

\* Every result an engine returned to search_engine during this search.
ReturnedByEngines ==
    UNION { Elements(worker[t].results) : t \in DOMAIN worker }

\* C11: when the engines return results with duplicate URLs, the merged list
\* that SearchEngineManager.search returns has each URL exactly once, every
\* entry is a result an engine returned, and no URL that an engine returned
\* is missing from it.
C11_EachUrlOnceNoneDropped ==
    (mgr_pc = "l175" /\ mgr_config.enable_deduplication) =>
        /\ \A i, j \in DOMAIN mgr_all_results :
              mgr_all_results[i].link = mgr_all_results[j].link => i = j
        /\ Elements(mgr_all_results) \subseteq ReturnedByEngines
        /\ Links(mgr_all_results) =
              { r.link : r \in ReturnedByEngines }

\* Provider-level failures recorded for an engine.
RecordedFailures(n) ==
    engine_stats[n].total_searches - engine_stats[n].successful_searches

\* C14: scenario D. One engine fails on every retry while the other gives
\* 3 results: search returns the 3 results, and exactly one failure is
\* recorded, for the failing engine (total minus successful searches is 1
\* for it and 0 for the other).
C14_ScenarioD ==
    \A f, g \in DOMAIN worker :
        ( /\ mgr_pc = "l175"
          /\ target_engines[f] # target_engines[g]
          /\ worker[f].kind = "exhausted"
          /\ worker[g].kind = "results"
          /\ worker[g].results = ThreeResults ) =>
            /\ mgr_all_results = ThreeResults
            /\ RecordedFailures(target_engines[f]) = 1
            /\ RecordedFailures(target_engines[g]) = 0

\* The search_engine calls made for engine n in this search.
CallsOf(n) == { t \in DOMAIN worker : target_engines[t] = n }

\* C17: no counter update is lost: once every worker has finished,
\* total_searches of each engine is the number of calls made on it, under
\* every interleaving of the workers, a target list naming an engine twice
\* included.
C17_NoLostUpdate ==
    (mgr_pc \in {"l175", "raised"}) =>
        \A n \in EngineNames :
            engine_stats[n].total_searches = Cardinality(CallsOf(n))

\* C12: a fetch that fails (exception, timeout or non-200 status) is left
\* out of the map _scrape_content returns and does not abort the batch: the
\* keys of the map are exactly the URLs whose fetch succeeded.
C12_KeysAreSucceededFetches ==
    pc = "l283" =>
        /\ futures = {}
        /\ raised_at = NULL
        /\ DOMAIN scraped =
              { filtered_results[i].link : i \in SucceededFetches }

\* C13: every text in the map returned by the content stage is cut to the
\* character budget: its length is at most max_content_chars, whatever the
\* candidate and whatever the outcome of its fetch.
C13_TextWithinBudget ==
    (content_out # None /\ content_out[1].stored) =>
        Len(content_out[1].content) <= page.max_content_chars

\* _make_request has returned or raised.
RequestOver == request_pc \notin {"l77", "l82"}

\* C15: a call on an engine with a session and max_retries >= 1 makes at
\* least one and at most max_retries attempts, stops at the first successful
\* response, makes a further attempt only after a transient failure (timeout,
\* connection error) and never after a response, and raises once the last
\* attempt has failed.
C15_BoundedRetryOnTransientOnly ==
    (session /\ max_retries >= 1) =>
        /\ Len(attempt_log) <= max_retries
        /\ RequestOver => Len(attempt_log) >= 1
        /\ \A i \in DOMAIN attempt_log :
              i < Len(attempt_log) => attempt_log[i] \in Transient
        /\ (request_pc = "l107") =>
              /\ Len(attempt_log) = max_retries
              /\ attempt_log[Len(attempt_log)] # "ok"

\* C16: after any sequence of search outcomes and check_health calls the
\* health status is a function of the consecutive-failure count: ONLINE iff
\* the count is 0, DEGRADED iff it is 1 or 2, OFFLINE iff it is at least 3.
C16_StatusFollowsFailureCount ==
    health_calls > 0 =>
        /\ health.status = ONLINE <=> health.consecutive_failures = 0
        /\ health.status = DEGRADED <=> health.consecutive_failures \in {1, 2}
        /\ health.status = OFFLINE <=> health.consecutive_failures >= 3

\* C18: the number of provider tasks running at the same time in one search
\* stage never exceeds the worker ceiling, which is the provider count capped
\* at 5, for every number of providers (zero and more than 5 included).
C18_RunningWithinCeiling ==
    Cardinality(RunningTasks) <= Min(executor.providers, ManagerMaxWorkers)

\* C19: storage.save is called exactly once per investigation, at
\* COMPLETED, for the final record: a save is made only at line 169 with the
\* status COMPLETED and no save made before; the run in which save is called
\* does not fail (the call is followed by the return, not by the except
\* clause); and after the call the status and the errors do not change.
C19_SavedOnceFinalRecord ==
    [][ /\ (saved' # saved) =>
              (pc = "l169" /\ status = COMPLETED /\ saved = 0)
        /\ (pc = "l169" /\ config.storage /\ pc' # pc) => (pc' = "l180")
        /\ (pc \in {"l180", "returned"}) =>
              (status' = status /\ errors' = errors) ]_vars

\* C20: a fatal error reaches the caller only after the investigation was
\* marked FAILED, and the caller receives, on success and on failure, a
\* terminal Investigation: terminal status, completed_at set, and the error
\* recorded when the status is FAILED.
C20_CallerReceivesTerminalInvestigation ==
    /\ pc = "raised" => status = FAILED
    /\ pc \in {"returned", "raised"} =>
          /\ CallerReceives # None
          /\ CallerReceives[1].status \in {COMPLETED, FAILED, CANCELLED}
          /\ CallerReceives[1].completed_at # None
          /\ CallerReceives[1].status = FAILED =>
                CallerReceives[1].errors # <<>>

\* C21: progress reporting never gates execution: whatever the callback does
\* (absent, returning, raising), a progress checkpoint is followed by the
\* status line after it, so that the status sequence and the terminal status
\* are those of a run without callback.
C21_ProgressNeverGates ==
    [][(pc \in ProgressLines /\ pc' # pc) => (pc' = ProgressNext(pc))]_vars

\* C22: cancellation is explicit (update_status(CANCELLED) is the only way
\* the code has to cancel) and final: once the investigation is CANCELLED no
\* new stage is started, whatever is called on it afterwards.
C22_CancelledStartsNoStage ==
    [][(status = CANCELLED) => (status' = CANCELLED)]_vars

\* C23: when the result filter keeps zero candidates the investigation is
\* aborted: SCRAPING is never entered with an empty list of candidates, and
\* a run in which the filter kept none ends FAILED with an error recorded.
C23_NoCandidatesIsFatal ==
    /\ SCRAPING \in Elements(status_log) => filtered_results # <<>>
    /\ (pc = "returned") => filtered_results # <<>>

\* C24: after every calculate_threat_score call the threat score is within
\* [0, 100] (here 0..10000 hundredths), and a ThreatIntelligence without IOCs
\* has score 0 and overall level UNKNOWN, also when the call recalculates
\* after the IOC list changed.
C24_ScoreInRangeZeroWithoutIocs ==
    (threat_pc = "calculated") =>
        /\ threat_intel.threat_score \in 0..10000
        /\ (threat_intel.iocs = <<>>) =>
              /\ threat_intel.threat_score = 0
              /\ threat_intel.overall_threat_level = ThreatLevel.UNKNOWN

\* The entities that survive the drop below the floor.
Drop(entities, floor) ==
    SelectSeq(entities, LAMBDA e : e.confidence >= floor)

\* The entity types the specification lists as eligible for an IOC, a hash
\* being eligible by its subtype.
Eligible(e) ==
    \/ e.entity_type \in { "email", "domain", "ip_address", "crypto_wallet",
                           "cve" }
    \/ /\ e.entity_type = "hash"
       /\ e.hash_type \in { "MD5", "SHA1", "SHA256", "md5", "sha1", "sha256" }

Normalized(entity_type, value) ==
    IF entity_type = "crypto_wallet" THEN value ELSE WordLower(value)

\* C26: deduplication is scoped to one extract call and keyed on (type,
\* normalized value): the entities of a call hold no (type, normalized
\* value) pair twice, and every match of the text, whatever entity of
\* another type has the same value and whatever an earlier call has seen,
\* is among them.
C26_DedupKeyedOnTypeAndValue ==
    (extractor.calls > 0) =>
        /\ \A i, j \in 1..Len(extractor.entities) :
              (i # j) =>
                  ~ /\ extractor.entities[i].entity_type
                          = extractor.entities[j].entity_type
                    /\ Normalized(extractor.entities[i].entity_type,
                                  extractor.entities[i].value)
                          = Normalized(extractor.entities[j].entity_type,
                                       extractor.entities[j].value)
        /\ LET cands == Candidates(extractor.text)
           IN  \A k \in 1..Len(cands) :
                   \E i \in 1..Len(extractor.entities) :
                       /\ extractor.entities[i].entity_type
                             = cands[k].entity_type
                       /\ Normalized(extractor.entities[i].entity_type,
                                     extractor.entities[i].value)
                             = Normalized(cands[k].entity_type,
                                          cands[k].value)

\* The length table of the specification.
HashTypeTable(length) ==
    CASE length = 32 -> "MD5"
      [] length = 40 -> "SHA-1"
      [] length = 64 -> "SHA-256"
      [] length = 128 -> "SHA-512"
      [] OTHER -> "unknown"

\* C27: extraction and the STIX exporter give every hash string the same
\* type, that of the length table 32 MD5, 40 SHA-1, 64 SHA-256, 128
\* SHA-512, other lengths unknown.
C27_HashTablesIdentical ==
    (stix_hash # None) =>
        /\ stix_hash[1].hash_type = HashTypeTable(stix_hash[1].word.length)
        /\ ExtractedHashType(stix_hash[1].word)
              = HashTypeTable(stix_hash[1].word.length)

\* C28: without TTL and below capacity both caches behave as a map from key
\* to value: get(k) returns the value of the latest set(k) not followed by
\* delete(k) or clear, None otherwise; exists(k) tells whether get(k) would
\* return a value; delete(k) returns True iff k was present.
C28_CachesAreMaps ==
    (/\ cache_call # None
     /\ \/ cache_call[1].written = None
        \/ cache_call[1].written[1].expires_at = None) =>
        LET c == cache_call[1]
        IN  /\ (c.op = "get") =>
                  c.result = IF c.written = None THEN None
                             ELSE Some(c.written[1].value)
            /\ (c.op = "exists") => (c.result = (c.written # None))
            /\ (c.op = "delete") => (c.result = (c.written # None))

\* C28 witness: with both keys set, key1 twice, get(key1) returned the
\* later value.
C28_Witness ==
    /\ cache_call # None
    /\ cache_call[1].op = "get"
    /\ cache_call[1].key = "key1"
    /\ cache_call[1].result = Some("value2")
    /\ cache_call[1].written # None
    /\ cache_call[1].written[1].expires_at = None
    /\ \E w \in cache_written : w.key = "key2" /\ w.value = "value1"

C30_EvictsLeastRecentlyUsed ==
    (cache_call # None /\ cache_call[1].op = "set") =>
        LET c == cache_call[1]
            cache == memory_cache[1]._cache
        IN  /\ c.key \in KeysOf(cache)
            /\ Len(cache) <= memory_cache[1]._max_size
            /\ (c.evicted # None) =>
                  /\ Len(cache) = memory_cache[1]._max_size
                  /\ c.evicted = c.lru

\* C31: the constructor leaves a new Investigation in PENDING with an id and
\* a created_at, with no completed_at, refined query, summary or threat
\* score, with the three counters at zero and with no error recorded.
C31_NewInvestigationIsPending ==
    [][ (new_investigation = None /\ new_investigation' # None) =>
        (LET inv == new_investigation'[1] IN
            /\ inv.status = PENDING
            /\ inv.id # None
            /\ inv.created_at # None
            /\ inv.completed_at = None
            /\ inv.refined_query = None
            /\ inv.summary = None
            /\ inv.threat_score = None
            /\ inv.search_results_count = 0
            /\ inv.filtered_results_count = 0
            /\ inv.scraped_count = 0
            /\ inv.errors = <<>>) ]_vars

\* C31 witness: an Investigation was constructed and no method was called
\* on it yet.
C31_Witness ==
    /\ new_investigation # None
    /\ new_investigation[1].tags = <<>>
    /\ new_investigation[1].created_at = Some(create_clock)
    /\ new_investigation[1].updated_at = Some(create_clock)

\* C32: the timeout of SearchEngineManager.search costs no successful
\* result: when timeout_per_engine passes with one engine unfinished, search
\* does not raise after the results of a finished engine were collected (it
\* returns them).
C32_TimeoutDoesNotRaise ==
    ~ ( /\ mgr_pc = "raised"
        /\ \E t \in DOMAIN worker : t \notin mgr_futures )

\* C33: the pool of a stage is torn down when the stage completes: outside
\* the as_completed loops of the search and scrape stages no submitted task
\* is pending, so none runs once the status of the next stage is entered.
C33_PoolTornDownWithStage ==
    /\ pc \notin {"l204", "l275"} => futures = {}
    /\ status \notin {SEARCHING, SCRAPING} => futures = {}

\* C33 witness: the search stage ran provider tasks and returned, and the
\* status of the filter stage is entered.
C33_Witness ==
    /\ status = FILTERING
    /\ config.search_engines > 1
    /\ search_results_count > 0
    /\ futures = {}

\* The requests of a client that were forwarded within the 60 seconds that
\* follow the window start ws.
ForwardedInWindow(client_ip, ws) ==
    { i \in DOMAIN limiter_log :
        /\ limiter_log[i].client = client_ip
        /\ limiter_log[i].forwarded
        /\ ws <= limiter_log[i].at
        /\ limiter_log[i].at <= ws + Window }

\* C34: per client and 60-second window counted from the client's window
\* start at most requests_per_minute requests are forwarded; a request above
\* that is answered 429, not forwarded, and leaves the count as it was; the
\* first request after the window has elapsed is forwarded and starts a new
\* window with count 1.
C34_RateLimitPerClientWindow ==
    \A i \in DOMAIN limiter_log :
        LET call == limiter_log[i]
        IN /\ call.forwarded =>
                 Cardinality(ForwardedInWindow(call.client, call.after[1][2]))
                     <= limiter[1].requests_per_minute
           /\ ( /\ call.before # None
                /\ call.at - call.before[1][2] <= Window
                /\ call.before[1][1] >= limiter[1].requests_per_minute )
              => ( /\ call.status_code = 429
                   /\ ~ call.forwarded
                   /\ call.after = call.before )
           /\ call.status_code = 429 =>
                 (~ call.forwarded /\ call.after = call.before)
           /\ ( /\ call.before # None
                /\ call.at - call.before[1][2] > Window )
              => ( /\ call.forwarded
                   /\ call.after = Some(<< 1, call.at >>) )

\* C34 witness: a client was answered 429 within its window and, after the
\* window had elapsed, was forwarded again.
C34_Witness ==
    \E i, j \in DOMAIN limiter_log :
        /\ i < j
        /\ limiter_log[i].client = limiter_log[j].client
        /\ limiter_log[i].status_code = 429
        /\ limiter_log[j].forwarded
        /\ limiter_log[j].before # None
        /\ limiter_log[j].at - limiter_log[j].before[1][2] > Window

\* C35: when a run of investigate has ended, the error list is non-empty
\* exactly if the status is FAILED; a run that ended with the exception has
\* one error entry, and a run that returned has status COMPLETED and no
\* error entry.
C35_ErrorsIffFailed ==
    pc \in {"returned", "raised"} =>
        /\ (errors # <<>>) <=> (status = FAILED)
        /\ pc = "raised" => (status = FAILED /\ Len(errors) = 1)
        /\ pc = "returned" => (status = COMPLETED /\ errors = <<>>)

\* C35 witness: a run failed in the scrape stage or later and has ended.
C35_Witness ==
    /\ pc = "raised"
    /\ status = FAILED
    /\ Len(errors) = 1
    /\ search_results_count > 0

\* C36: the counters of a run are ordered, whatever the LLM of the filter
\* answers (duplicate or out-of-range numbers, no number) and when it
\* raises: filtered_results_count is at most search_results_count and at
\* most max_results, and scraped_count is at most filtered_results_count.
C36_CountersOrdered ==
    filter_run # None =>
        LET run == filter_run[1]
        IN /\ run.filtered_results_count <= run.search_results_count
           /\ run.filtered_results_count <= run.max_results
           /\ run.scraped_count <= run.filtered_results_count

\* C36 witness: the LLM named more results than max_results, one of them
\* twice or out of range, the selection was cut to max_results, and a fetch
\* that gave no content left scraped_count below filtered_results_count.
C36_Witness ==
    /\ filter_run # None
    /\ filter_run[1].pc = "l139"
    /\ filter_run[1].answer # None
    /\ Len(filter_run[1].answer[1]) > filter_run[1].filtered_results_count
    /\ filter_run[1].filtered_results_count = filter_run[1].max_results
    /\ filter_run[1].filtered_results_count
           < filter_run[1].search_results_count
    /\ filter_run[1].scraped_count < filter_run[1].filtered_results_count

\* C37: each of two extract calls that run at once on one EntityExtractor
\* returns the entities it returns when run alone: none is lost and none is
\* duplicated because of the other call.
C37_ConcurrentCallsIndependent ==
    \A i \in DOMAIN extract_calls :
        extract_calls[i].pc = "returned" =>
            extract_calls[i].entities = ExtractAlone(extract_calls[i].text)

\* C38: analyze gives every IOC a threat level among LOW, MEDIUM and HIGH,
\* so the score it returns is at most 75 and the overall threat level is
\* never CRITICAL.
C38_LevelsLowToHigh ==
    (analysis # None /\ analysis[1].pc = "l111") =>
        /\ \A i \in DOMAIN analysis[1].iocs :
              analysis[1].iocs[i].threat_level \in
                  { ThreatLevel.LOW, ThreatLevel.MEDIUM, ThreatLevel.HIGH }
        /\ analysis[1].threat_score <= 7500
        /\ analysis[1].overall_threat_level # ThreatLevel.CRITICAL

\* C38 witness: analyze returned with every IOC at HIGH and confidence 1.0,
\* the score 75 and the overall level HIGH.
C38_Witness ==
    /\ analysis # None
    /\ analysis[1].pc = "l111"
    /\ Len(analysis[1].iocs) = MaxAnalyzed
    /\ analysis[1].threat_score = 7500
    /\ analysis[1].overall_threat_level = ThreatLevel.HIGH

\* The number of entities of type t in the entity list of a result.
EntitiesOfType(result, t) ==
    Cardinality({ i \in DOMAIN result.entities :
                    result.entities[i].entity_type = t })

RECURSIVE SumCounts(_, _)
SumCounts(entity_counts, types) ==
    IF types = {} THEN 0
    ELSE LET t == CHOOSE x \in types : TRUE
         IN entity_counts[t] + SumCounts(entity_counts, types \ {t})

CountsMatch(result) ==
    /\ DOMAIN result.entity_counts \subseteq CountedTypes
    /\ \A t \in CountedTypes :
          GetCount(result.entity_counts, t) = EntitiesOfType(result, t)
    /\ SumCounts(result.entity_counts, DOMAIN result.entity_counts)
           = TotalCount(result)

\* C39: in the result of extract and in the combined result of
\* extract_from_multiple entity_counts[t] is the number of entities of type
\* t, for every type, and the counts add up to total_count.
C39_CountsMatchEntities ==
    extraction # None =>
        /\ CountsMatch(extraction[1].result)
        /\ CountsMatch(extraction[1].combined)

\* C39 witness: extract_from_multiple returned a combined result of two
\* texts that holds two entities of one type and one of another.
C39_Witness ==
    /\ extraction # None
    /\ extraction[1].pc = "l236"
    /\ Len(extraction[1].texts) = 2
    /\ \E t1, t2 \in CountedTypes :
          /\ t1 # t2
          /\ GetCount(extraction[1].combined.entity_counts, t1) >= 2
          /\ GetCount(extraction[1].combined.entity_counts, t2) >= 1

\* C40: a MemoryCache with max_size >= 1 never stores more than max_size
\* entries, and a set of a key that is stored in a full cache leaves the
\* stored keys as they are (nothing is evicted).
C40_SizeBoundedOverwriteKeeps ==
    [][ (memory_cache # None /\ memory_cache' # None) =>
        LET before == memory_cache[1]._cache
            after == memory_cache'[1]._cache
        IN /\ Len(after) <= memory_cache'[1]._max_size
           /\ ( /\ memory_cache' # memory_cache
                /\ cache_call'[1].op = "set"
                /\ cache_call'[1].key \in KeysOf(before)
                /\ Len(before) >= memory_cache[1]._max_size )
              => KeysOf(after) = KeysOf(before) ]_vars

\* C40 witness: a key stored in a full cache was set again, and the cache
\* holds max_size entries.
C40_Witness ==
    /\ memory_cache # None
    /\ cache_call # None
    /\ cache_call[1].op = "set"
    /\ cache_call[1].written # None
    /\ cache_call[1].evicted = None
    /\ Len(memory_cache[1]._cache) = memory_cache[1]._max_size
    /\ cache_call[1].at > 0

====
